---- MODULE Spec2Model ----
(***************************************************************************)
(* PlanGenie orchestrator (src/factory.py): the fresh-request run with its *)
(* agent supervisor and progress reporter (shimmer), and the incremental   *)
(* plan editor.  Dates are integers YYYYMMDD; 0 is the empty string and    *)
(* NoDate is Python's None.                                                 *)
(***************************************************************************)
EXTENDS Integers, Sequences, FiniteSets, TLC

VARIABLES
    pc,              \* position of the main flow (process_request_stream / _handle_incremental_edit)
    out,             \* segments handed to segment_callback, in order
    intent,          \* TripRequest extracted by _understand_intent (new_intent in an edit)
    requested,       \* requested_components
    agents_needed,   \* result of _determine_agents_needed, in scheduling order
    agentSt,         \* per agent: "idle" (coroutine not started), "running", "done"
    results,         \* results mapping of _run_agents_parallel
    itinDays,        \* all_days of the itinerary agent: days finished so far
    shimmer_active,  \* self.shimmer_active
    sh,              \* the shimmer task: position, current_step, pending cancellation
    ret,             \* the ChatPlan returned by the run
    returned,        \* TRUE once the run has returned
    saved,           \* plan handed to memory.save_to_supabase (hasPlan FALSE: plan=None)
    saveCount,       \* number of save_to_supabase calls of the run
    plan,            \* the existing_plan object of an edit (updated_plan is the same object)
    plan0,           \* value of the existing plan when the edit began
    edit_intent,     \* the EditIntent of an edit run
    msg,             \* date-relevant content of the user message
    now,             \* datetime.now() of the run
    raised,          \* TRUE once an exception reached the editor's except clause
    planner,         \* the arguments of the run's last _plan_single_day call (called FALSE: none)
    rotation,        \* a call of call_with_key_rotation: its arguments, locals and outcome
    search,          \* a call of search_flights or search_hotels: its locals, requests and result
    launched,        \* agents invoked by the run
    threw,           \* agents whose external call raised
    rt,              \* intent classification of the run: the message's words, the steps
                     \* process_request_stream took before the fresh or edit path, and
                     \* the intent_data the structured extraction returned
    stream_sessions, \* the streaming API's session table: the stream ids it holds
    queues,          \* per stream id: the content of the asyncio.Queue created for it
    bg,              \* per stream id: the _process_stream_background task
    cleanup,         \* per stream id: the _cleanup_session task and the time it has slept
    store,           \* per thread: the latest plan the persistence collaborator holds
    delivered,       \* per stream id: the events the consumers of that id were sent
    consumers        \* per stream id: the answer to the last consume call, "open" while its generator runs

vars == <<pc, out, intent, requested, agents_needed, agentSt, results, itinDays,
          shimmer_active, sh, ret, returned, saved, saveCount, plan, plan0,
          edit_intent, msg, now, raised, planner, rotation, search, launched, threw, rt,
          stream_sessions, queues, bg, cleanup, store, delivered, consumers>>

freshVars == <<intent, requested, agents_needed, agentSt, results, itinDays, shimmer_active, sh>>
editVars  == <<plan, plan0, edit_intent, msg, now, raised, planner>>
toolVars  == <<rotation, search>>
serverVars == <<stream_sessions, queues, bg, cleanup, store, delivered, consumers>>
runVars == <<pc, out, intent, requested, agents_needed, agentSt, results, itinDays,
             shimmer_active, sh, ret, returned, saved, saveCount, plan, plan0,
             edit_intent, msg, now, raised, planner, rotation, search, launched, threw, rt>>

-----------------------------------------------------------------------------
(* Bounds *)
MaxItems == 1        \* most flights / hotels an agent returns
MaxDays  == 2        \* most days the itinerary agent plans in a fresh run
MaxPlanDays == 3     \* most days of an existing plan's itinerary

-----------------------------------------------------------------------------
(* Values *)
Agents == {"FLIGHTS", "HOTELS", "ITINERARY"}
AgentOrder == <<"FLIGHTS", "HOTELS", "ITINERARY">>
NoDate == -1
D0 == 2027 * 10000 + 12 * 100 + 20       \* first day of the modelled trip: 2027-12-20

ItemLists == {[i \in 1..k |-> i] : k \in 0..MaxItems}

\* blocks of the k-th planned day; an activity name is the set of its words
DayBlocks(k) ==
    IF k = 1
    THEN <<[time |-> "morning", activities |-> <<[name |-> {"museum"}, category |-> "attraction"]>>],
           [time |-> "afternoon", activities |-> <<[name |-> {"museum", "cafe"}, category |-> "restaurant"]>>]>>
    ELSE IF k = 2
    THEN <<[time |-> "morning", activities |-> <<[name |-> {"park"}, category |-> "attraction"]>>],
           [time |-> "afternoon", activities |-> <<[name |-> {"beach"}, category |-> "attraction"]>>]>>
    ELSE <<[time |-> "morning", activities |-> <<[name |-> {"zoo"}, category |-> "attraction"]>>]>>
MkDay(k) == [date |-> D0 + k - 1, blocks |-> DayBlocks(k)]
DaysUpTo(n) == [k \in 1..n |-> MkDay(k)]

\* no call of call_with_key_rotation, search_flights or search_hotels in progress
NoRotation == [pc |-> "none"]
NoSearch == [pc |-> "none"]

\* planner before any _plan_single_day call of the run
NoPlannerCall == [called |-> FALSE, target_date |-> NoDate, used_activity_names |-> {},
                  used_restaurant_names |-> {}, day_number |-> 0, total_days |-> 0]

\* an external classification call that raised
NoAnswer == [ok |-> FALSE, text |-> <<>>]
NoComponentAnswer == [ok |-> FALSE, marks |-> {}]

\* intent_data of _understand_intent when the structured extraction gave nothing
NoIntentData == [ok |-> FALSE, origin |-> "", destination |-> "", depart_date |-> 0,
                 return_date |-> NoDate, trip_length |-> 0]

\* the classification state before any classification step has run
NoRoute == [words |-> {}, prior |-> FALSE, existing |-> FALSE, travel |-> "unknown",
            travel_resp |-> NoAnswer, asked |-> {}, loaded |-> FALSE, detected |-> FALSE,
            fallback |-> FALSE, components |-> <<>>, comp_resp |-> NoComponentAnswer,
            intent_data |-> NoIntentData]

\* an EditIntent with every target absent (None)
NoEditIntent == [edit_type |-> "none", target_date |-> NoDate, day_number |-> 0,
                 activity_name |-> "", source_day |-> 0, target_day |-> 0]

EmptyRequest == [origin |-> "", destination |-> "", depart_date |-> 0,
                 return_date |-> NoDate, trip_length |-> 0]
NoSummary == [scope |-> "", parts |-> <<>>]
EmptyPlan == [request |-> EmptyRequest, flights |-> <<>>, hotels |-> <<>>, days |-> <<>>,
              summary |-> NoSummary, notes |-> "", errors |-> <<>>]
NoResult == [present |-> FALSE, has_error |-> FALSE, wrapper |-> FALSE, items |-> <<>>, reasoning |-> "none"]

Seg(type, src, tag, data, final) == [type |-> type, src |-> src, tag |-> tag, data |-> data, final |-> final]
TextChunk(src, tag) == Seg("text", src, tag, <<>>, FALSE)

SeqToSet(s) == {s[i] : i \in 1..Len(s)}
RECURSIVE FilterOrder(_, _)
FilterOrder(order, S) ==
    IF order = <<>> THEN <<>>
    ELSE (IF Head(order) \in S THEN <<Head(order)>> ELSE <<>>) \o FilterOrder(Tail(order), S)

-----------------------------------------------------------------------------
(* Calendar and _extract_dates.  A message is modelled by what the date     *)
(* patterns find in it: its YYYY-MM-DD tokens (iso), its day/month mentions *)
(* (nl, form "dm" = "12th december", "md" = "december 12") in text order,   *)
(* and the day of a "return by/on N" phrase (ret_day, 0 when absent).       *)
MkDate(y, m, d) == y * 10000 + m * 100 + d
YearOf(dt) == dt \div 10000
MonthOf(dt) == (dt \div 100) % 100
DayOf(dt) == dt % 100
IsLeap(y) == (y % 4 = 0 /\ y % 100 # 0) \/ y % 400 = 0
DaysInMonth(y, m) ==
    IF m = 2 THEN (IF IsLeap(y) THEN 29 ELSE 28)
    ELSE IF m \in {4, 6, 9, 11} THEN 30 ELSE 31
ValidDate(y, m, d) == m \in 1..12 /\ d >= 1 /\ d <= DaysInMonth(y, m)
IsDate(dt) == dt > 0 /\ ValidDate(YearOf(dt), MonthOf(dt), DayOf(dt))

NoDatesMsg == [iso |-> <<>>, nl |-> <<>>, ret_day |-> 0]

\* datetime(current_year, month, day) < now
DatePassed(m, d, n) ==
    \/ m * 100 + d < n.date % 10000
    \/ m * 100 + d = n.date % 10000 /\ ~n.midnight

\* one matched mention: <<>> when skipped, else the date with the year rule applied
MentionDate(men, n) ==
    LET cy == YearOf(n.date)
    IN IF ~(men.d >= 1 /\ men.d <= 31) \/ ~ValidDate(cy, men.m, men.d) THEN <<>>
       ELSE <<MkDate(IF DatePassed(men.m, men.d, n) THEN cy + 1 ELSE cy, men.m, men.d)>>

RECURSIVE PatternPass(_, _, _, _)
PatternPass(mentions, form, n, acc) ==
    IF mentions = <<>> THEN acc
    ELSE LET dts == IF Head(mentions).form = form THEN MentionDate(Head(mentions), n) ELSE <<>>
             acc2 == IF dts # <<>> /\ dts[1] \notin SeqToSet(acc) THEN acc \o dts ELSE acc
         IN PatternPass(Tail(mentions), form, n, acc2)

\* lines 1738-1774: the date of a bare "return by/on N" day: the month of the
\* first date, or the month after it when N is less than the first day
ReturnByDate(first, ret_day) ==
    LET roll == ret_day < DayOf(first)
        mo == IF roll THEN (IF MonthOf(first) = 12 THEN 1 ELSE MonthOf(first) + 1)
              ELSE MonthOf(first)
        yr == IF roll /\ MonthOf(first) = 12 THEN YearOf(first) + 1 ELSE YearOf(first)
    IN MkDate(yr, mo, ret_day)

\* applied when exactly one date was found, appended unless already there
WithReturnBy(e2, ret_day) ==
    IF Len(e2) = 1 /\ ret_day # 0 /\ IsDate(e2[1]) /\ ReturnByDate(e2[1], ret_day) # e2[1]
    THEN e2 \o <<ReturnByDate(e2[1], ret_day)>>
    ELSE e2

\* _extract_dates: ISO tokens win; else the day-first pattern over the whole
\* text, then the month-first pattern (the short-month pattern only re-finds
\* day-first matches), then the bare "return by N" day
ExtractDates(m, n) ==
    IF m.iso # <<>> THEN m.iso
    ELSE WithReturnBy(PatternPass(m.nl, "md", n, PatternPass(m.nl, "dm", n, <<>>)), m.ret_day)

\* date_obj.replace(year=depart_year), kept as it was when either call raises
FixYear(dt, depart) ==
    IF IsDate(dt) /\ IsDate(depart) /\ YearOf(dt) # YearOf(depart)
       /\ ValidDate(YearOf(depart), MonthOf(dt), DayOf(dt))
    THEN MkDate(YearOf(depart), MonthOf(dt), DayOf(dt))
    ELSE dt

FixYears(dts, depart) == [i \in 1..Len(dts) |-> FixYear(dts[i], depart)]

-----------------------------------------------------------------------------
(* _check_missing_information *)
CheckMissingInformationMut(it, req) ==
    LET noDest == it.destination = ""
        noDep  == it.depart_date = 0
        m1 == IF "FLIGHTS" \in req
              THEN (IF noDest THEN <<"destination">> ELSE <<>>)
                   \o (IF noDep THEN <<"depart_date">> ELSE <<>>)
                   \o (IF it.origin = "" THEN <<"origin">> ELSE <<>>)
              ELSE <<>>
        addDest(m) == IF noDest THEN m \o <<"destination">> ELSE m
        addDep(m)  == IF ~noDest /\ noDep THEN m \o <<"depart_date">> ELSE m
        m2 == IF "HOTELS" \in req THEN addDep(addDest(m1)) ELSE m1
    IN IF "ITINERARY" \in req THEN addDep(addDest(m2)) ELSE m2
CheckMissingInformation(it, req) ==
    LET noDest == it.destination = ""
        noDep  == it.depart_date = 0
        m1 == IF "FLIGHTS" \in req
              THEN (IF noDest THEN <<"destination">> ELSE <<>>)
                   \o (IF noDep THEN <<"depart_date">> ELSE <<>>)
                   \o (IF it.origin = "" THEN <<"origin">> ELSE <<>>)
              ELSE <<>>
        addDest(m) == IF noDest /\ "destination" \notin SeqToSet(m) THEN m \o <<"destination">> ELSE m
        addDep(m)  == IF ~noDest /\ noDep /\ "depart_date" \notin SeqToSet(m) THEN m \o <<"depart_date">> ELSE m
        m2 == IF "HOTELS" \in req THEN addDep(addDest(m1)) ELSE m1
        m3 == IF "ITINERARY" \in req
              THEN LET m == addDep(addDest(m2))
                   IN IF ~noDest /\ ~noDep /\ it.return_date \in {NoDate, 0} /\ it.trip_length = 0
                      THEN m \o <<"trip_length">> ELSE m
              ELSE m2
    IN m3

\* `if missing_info:` in process_request_stream
HasMissingMut(missing) == Len(missing) > 1
HasMissing(missing) == missing # <<>>

(* _determine_agents_needed *)
DetermineAgentsNeededMut(it, req) ==
    LET dest == it.destination # ""
        dep  == it.depart_date # 0
        ret_ == it.return_date \notin {NoDate, 0}
        a == (IF "FLIGHTS" \in req /\ dest /\ dep THEN {"FLIGHTS"} ELSE {})
             \cup (IF "HOTELS" \in req /\ dest THEN {"HOTELS"} ELSE {})
             \cup (IF "ITINERARY" \in req /\ dest /\ ret_ THEN {"ITINERARY"} ELSE {})
    IN FilterOrder(AgentOrder, a)
DetermineAgentsNeeded(it, req) ==
    LET dest == it.destination # ""
        dep  == it.depart_date # 0
        ret_ == it.return_date \notin {NoDate, 0}
        a == (IF "FLIGHTS" \in req /\ dest /\ dep THEN {"FLIGHTS"} ELSE {})
             \cup (IF "HOTELS" \in req /\ dest THEN {"HOTELS"} ELSE {})
             \cup (IF "ITINERARY" \in req /\ dest /\ dep THEN {"ITINERARY"} ELSE {})
        dflt == (IF it.origin # "" /\ dest /\ dep THEN {"FLIGHTS"} ELSE {})
             \cup (IF dest THEN {"HOTELS"} ELSE {})
             \cup (IF dest /\ ret_ THEN {"ITINERARY"} ELSE {})
    IN FilterOrder(AgentOrder, IF a = {} /\ req = {} THEN dflt ELSE a)

-----------------------------------------------------------------------------
(* _shimmer_loop: the step list *)
ShimmerStepsMut(agents) ==
    LET s == (IF "HOTELS" \in SeqToSet(agents) THEN <<"hotels1", "hotels2">> ELSE <<>>)
             \o (IF "FLIGHTS" \in SeqToSet(agents) THEN <<"flights1", "flights2">> ELSE <<>>)
             \o (IF "ITINERARY" \in SeqToSet(agents) THEN <<"itinerary1", "itinerary2">> ELSE <<>>)
    IN IF s = <<>> THEN <<"planning">> ELSE s
ShimmerSteps(agents) ==
    LET s == (IF "FLIGHTS" \in SeqToSet(agents) THEN <<"flights1", "flights2">> ELSE <<>>)
             \o (IF "HOTELS" \in SeqToSet(agents) THEN <<"hotels1", "hotels2">> ELSE <<>>)
             \o (IF "ITINERARY" \in SeqToSet(agents) THEN <<"itinerary1", "itinerary2">> ELSE <<>>)
    IN IF s = <<>> THEN <<"planning">> ELSE s

NoShimmer == [pc |-> "none", step |-> 0, cancel |-> FALSE]

-----------------------------------------------------------------------------
(* _generate_summary: the external narrative call always raises (the lambda *)
(* names an undefined `llM`), so the deterministic fallback is returned.    *)
GenerateSummaryMut(it, res, reqIn) ==
    LET req == Agents
        fr == res["FLIGHTS"]
        hr == res["HOTELS"]
        ir == res["ITINERARY"]
        fReason == IF fr.present /\ fr.reasoning # "none" THEN fr.reasoning ELSE "No flight information."
        hReason == IF hr.present /\ hr.reasoning # "none" THEN hr.reasoning ELSE "No hotel information."
        fPart == IF fReason = "error" THEN [k |-> "flights_error", n |-> 0, r |-> fReason]
                 ELSE IF fr.items = <<>> THEN [k |-> "flights_reasoning", n |-> 0, r |-> fReason]
                 ELSE [k |-> "found_flights", n |-> Len(fr.items), r |-> ""]
        hPart == IF hReason = "error" THEN [k |-> "hotels_error", n |-> 0, r |-> hReason]
                 ELSE IF hr.items = <<>> THEN [k |-> "hotels_reasoning", n |-> 0, r |-> hReason]
                 ELSE [k |-> "found_hotels", n |-> Len(hr.items), r |-> ""]
        iPart == IF ir.has_error THEN [k |-> "itinerary_error", n |-> 0, r |-> "err"]
                 ELSE IF ir.items # <<>> THEN [k |-> "created_itinerary", n |-> Len(ir.items), r |-> ""]
                 ELSE [k |-> "no_itinerary", n |-> 0, r |-> ""]
        parts == (IF "FLIGHTS" \in req THEN <<fPart>> ELSE <<>>)
                 \o (IF "HOTELS" \in req THEN <<hPart>> ELSE <<>>)
                 \o (IF "ITINERARY" \in req THEN <<iPart>> ELSE <<>>)
        scope == IF Cardinality(req) = 1
                 THEN (IF "FLIGHTS" \in req THEN "flight search results"
                       ELSE IF "HOTELS" \in req THEN "hotel search results"
                       ELSE "itinerary plan")
                 ELSE "trip plan"
    IN [summary |-> [scope |-> scope, parts |-> parts],
        notes |-> "Summary generated without AI enhancement."]
GenerateSummary(it, res, reqIn) ==
    LET req == IF reqIn = {} THEN Agents ELSE reqIn
        fr == res["FLIGHTS"]
        hr == res["HOTELS"]
        ir == res["ITINERARY"]
        fReason == IF fr.present /\ fr.reasoning # "none" THEN fr.reasoning ELSE "No flight information."
        hReason == IF hr.present /\ hr.reasoning # "none" THEN hr.reasoning ELSE "No hotel information."
        fPart == IF fReason = "error" THEN [k |-> "flights_error", n |-> 0, r |-> fReason]
                 ELSE IF fr.items = <<>> THEN [k |-> "flights_reasoning", n |-> 0, r |-> fReason]
                 ELSE [k |-> "found_flights", n |-> Len(fr.items), r |-> ""]
        hPart == IF hReason = "error" THEN [k |-> "hotels_error", n |-> 0, r |-> hReason]
                 ELSE IF hr.items = <<>> THEN [k |-> "hotels_reasoning", n |-> 0, r |-> hReason]
                 ELSE [k |-> "found_hotels", n |-> Len(hr.items), r |-> ""]
        iPart == IF ir.has_error THEN [k |-> "itinerary_error", n |-> 0, r |-> "err"]
                 ELSE IF ir.items # <<>> THEN [k |-> "created_itinerary", n |-> Len(ir.items), r |-> ""]
                 ELSE [k |-> "no_itinerary", n |-> 0, r |-> ""]
        parts == (IF "FLIGHTS" \in req THEN <<fPart>> ELSE <<>>)
                 \o (IF "HOTELS" \in req THEN <<hPart>> ELSE <<>>)
                 \o (IF "ITINERARY" \in req THEN <<iPart>> ELSE <<>>)
        scope == IF Cardinality(req) = 1
                 THEN (IF "FLIGHTS" \in req THEN "flight search results"
                       ELSE IF "HOTELS" \in req THEN "hotel search results"
                       ELSE "itinerary plan")
                 ELSE "trip plan"
    IN [summary |-> [scope |-> scope, parts |-> parts],
        notes |-> "Summary generated without AI enhancement."]

(* _build_plan; raises when the ITINERARY entry is the supervisor's error  *)
(* wrapper, whose "itinerary" value is a list and has no .get              *)
BuildPlanRaises(res, reqIn) ==
    LET req == IF reqIn = {} THEN Agents ELSE reqIn
    IN "ITINERARY" \in req /\ res["ITINERARY"].present /\ res["ITINERARY"].wrapper

RECURSIVE ErrorItems(_, _)
ErrorItems(order, res) ==
    IF order = <<>> THEN <<>>
    ELSE (IF res[Head(order)].present /\ res[Head(order)].has_error
          THEN <<[agent |-> Head(order), message |-> "err"]>> ELSE <<>>)
         \o ErrorItems(Tail(order), res)

BuildPlanMut(it, res, summary, reqIn) ==
    LET req == IF reqIn = {} THEN Agents ELSE reqIn
    IN [request |-> it,
        flights |-> IF "FLIGHTS" \in req THEN res["FLIGHTS"].items ELSE <<>>,
        hotels  |-> IF "HOTELS" \in req THEN res["HOTELS"].items ELSE <<>>,
        days    |-> IF "ITINERARY" \in req THEN res["ITINERARY"].items ELSE <<>>,
        summary |-> summary.summary,
        notes   |-> summary.notes,
        errors  |-> <<>>]
BuildPlan(it, res, summary, reqIn) ==
    LET req == IF reqIn = {} THEN Agents ELSE reqIn
    IN [request |-> it,
        flights |-> IF "FLIGHTS" \in req THEN res["FLIGHTS"].items ELSE <<>>,
        hotels  |-> IF "HOTELS" \in req THEN res["HOTELS"].items ELSE <<>>,
        days    |-> IF "ITINERARY" \in req THEN res["ITINERARY"].items ELSE <<>>,
        summary |-> summary.summary,
        notes   |-> summary.notes,
        errors  |-> ErrorItems(AgentOrder, res)]

-----------------------------------------------------------------------------
(* Fresh-request run: process_request_stream, lines 123-246 *)

Emit(s) == out' = Append(out, s)

\* the main flow is suspended at an await: other tasks of the event loop may run
MainSuspended ==
    \/ pc = "agents" /\ \E a \in Agents : agentSt[a] = "running"
    \/ pc \in {"await_shimmer", "done"}

\* _send_initial_progress
SendInitialProgress ==
    /\ pc = "initial_progress"
    /\ Emit(TextChunk("main", "initial"))
    /\ pc' = "check_missing"
    /\ UNCHANGED <<rt, serverVars, freshVars, editVars, toolVars, ret, returned, saved, saveCount, launched, threw>>

\* missing-field check; on success schedule the agents and create the shimmer task
CheckMissing ==
    /\ pc = "check_missing"
    /\ IF HasMissing(CheckMissingInformation(intent, requested))
       THEN /\ pc' = "clarify"
            /\ UNCHANGED <<rt, serverVars, agents_needed, shimmer_active, sh>>
       ELSE /\ agents_needed' = DetermineAgentsNeeded(intent, requested)
            /\ shimmer_active' = TRUE
            /\ sh' = [pc |-> "created", step |-> 0, cancel |-> FALSE]
            /\ pc' = "agents"
    /\ UNCHANGED <<rt, serverVars, out, intent, requested, agentSt, results, itinDays, editVars, toolVars,
                   ret, returned, saved, saveCount, launched, threw>>

\* _understand_intent, lines 1296-1298: the calls of the memory collaborator
\* stand outside every try block; when one raises, the exception reaches the
\* top-level handler before an agent or the shimmer task exists, and the
\* assignment of line 128 to intent and requested_components never happens
UnderstandIntentRaises ==
    /\ pc = "check_missing"
    /\ intent' = EmptyRequest
    /\ requested' = {}
    /\ pc' = "top_error"
    /\ UNCHANGED <<rt, serverVars, out, agents_needed, agentSt, results, itinDays, shimmer_active, sh,
                   editVars, toolVars, ret, returned, saved, saveCount, launched, threw>>

\* clarification question (external call or fallback template), streamed
\* as text and as the final summary; saved with plan=None
Clarify ==
    /\ pc = "clarify"
    /\ \E how \in {"llm", "fallback"} :
         LET q == [scope |-> "clarification", parts |-> <<[k |-> how, n |-> 0, r |-> ""]>>]
         IN /\ out' = out \o <<TextChunk("main", "clarification"),
                                Seg("summary", "main", "clarification", <<q>>, TRUE)>>
            /\ ret' = [EmptyPlan EXCEPT !.request = intent, !.summary = q]
    /\ saved' = [hasPlan |-> FALSE, plan |-> EmptyPlan]
    /\ saveCount' = saveCount + 1
    /\ returned' = TRUE
    /\ pc' = "done"
    /\ UNCHANGED <<rt, serverVars, freshVars, editVars, toolVars, launched, threw>>

\* _run_agents_parallel awaits the coroutines one after the other, in list order
CurrentAgent ==
    LET pending == {i \in 1..Len(agents_needed) : agentSt[agents_needed[i]] # "done"}
    IN IF pending = {} THEN "none"
       ELSE agents_needed[CHOOSE i \in pending : \A j \in pending : i <= j]

\* `await task`: the coroutine starts running and reaches its external call
AgentStart(a) ==
    /\ pc = "agents"
    /\ a = CurrentAgent
    /\ agentSt[a] = "idle"
    /\ agentSt' = [agentSt EXCEPT ![a] = "running"]
    /\ launched' = launched \cup {a}
    /\ UNCHANGED threw
    /\ UNCHANGED <<rt, serverVars, pc, out, intent, requested, agents_needed, results, itinDays,
                   shimmer_active, sh, editVars, toolVars, ret, returned, saved, saveCount>>

ErrorWrapper == [present |-> TRUE, has_error |-> TRUE, wrapper |-> TRUE, items |-> <<>>, reasoning |-> "none"]
OkResult(items) == [present |-> TRUE, has_error |-> FALSE, wrapper |-> FALSE, items |-> items, reasoning |-> "ok"]

\* _run_flight_agent: an exception of the search is swallowed into an empty result
FlightResult(ok, items) ==
    IF ok THEN OkResult(items)
    ELSE [present |-> TRUE, has_error |-> FALSE, wrapper |-> FALSE, items |-> <<>>, reasoning |-> "error"]

FlightFinish ==
    /\ pc = "agents"
    /\ agentSt["FLIGHTS"] = "running"
    /\ \E ok \in BOOLEAN, items \in ItemLists :
         LET r == FlightResult(ok, items)
         IN /\ (~ok => items = <<>>)
            /\ threw' = IF ok THEN threw ELSE threw \cup {"FLIGHTS"}
            /\ Emit(Seg("flights", "FLIGHTS", "data", r.items, FALSE))
            /\ results' = [results EXCEPT !["FLIGHTS"] = r]
    /\ agentSt' = [agentSt EXCEPT !["FLIGHTS"] = "done"]
    /\ UNCHANGED <<rt, serverVars, pc, intent, requested, agents_needed, itinDays, shimmer_active, sh,
                   editVars, toolVars, ret, returned, saved, saveCount, launched>>

\* _run_hotel_agent: an exception propagates to the supervisor's wrapper
HotelFinishMut ==
    /\ pc = "agents"
    /\ agentSt["HOTELS"] = "running"
    /\ \E ok \in BOOLEAN, items \in ItemLists :
         /\ (~ok => items = <<>>)
         /\ threw' = IF ok THEN threw ELSE threw \cup {"HOTELS"}
         /\ results' = [results EXCEPT !["HOTELS"] = IF ok THEN OkResult(items) ELSE ErrorWrapper]
    /\ agentSt' = [agentSt EXCEPT !["HOTELS"] = "done"]
    /\ UNCHANGED <<rt, serverVars, pc, out, intent, requested, agents_needed, itinDays, shimmer_active, sh,
                   editVars, toolVars, ret, returned, saved, saveCount, launched>>
HotelFinish ==
    /\ pc = "agents"
    /\ agentSt["HOTELS"] = "running"
    /\ \E ok \in BOOLEAN, items \in ItemLists :
         /\ (~ok => items = <<>>)
         /\ threw' = IF ok THEN threw ELSE threw \cup {"HOTELS"}
         /\ IF ok
            THEN /\ Emit(Seg("hotels", "HOTELS", "data", items, FALSE))
                 /\ results' = [results EXCEPT !["HOTELS"] = OkResult(items)]
            ELSE /\ UNCHANGED out
                 /\ results' = [results EXCEPT !["HOTELS"] = ErrorWrapper]
    /\ agentSt' = [agentSt EXCEPT !["HOTELS"] = "done"]
    /\ UNCHANGED <<rt, serverVars, pc, intent, requested, agents_needed, itinDays, shimmer_active, sh,
                   editVars, toolVars, ret, returned, saved, saveCount, launched>>

\* day_callback of _run_itinerary_agent: one more day finished, stream all so far
ItineraryDayDone ==
    /\ pc = "agents"
    /\ agentSt["ITINERARY"] = "running"
    /\ Len(itinDays) < MaxDays
    /\ itinDays' = Append(itinDays, MkDay(Len(itinDays) + 1))
    /\ Emit(Seg("itinerary", "ITINERARY", "data", itinDays', FALSE))
    /\ UNCHANGED <<rt, serverVars, pc, intent, requested, agents_needed, agentSt, results, shimmer_active, sh,
                   editVars, toolVars, ret, returned, saved, saveCount, launched, threw>>

\* plan_itinerary_agent returns (final stream when there are days) or raises
ItineraryFinish ==
    /\ pc = "agents"
    /\ agentSt["ITINERARY"] = "running"
    /\ \E ok \in BOOLEAN :
         /\ threw' = IF ok THEN threw ELSE threw \cup {"ITINERARY"}
         /\ IF ok
            THEN /\ IF itinDays # <<>>
                    THEN Emit(Seg("itinerary", "ITINERARY", "data", itinDays, FALSE))
                    ELSE UNCHANGED out
                 /\ results' = [results EXCEPT !["ITINERARY"] = OkResult(itinDays)]
            ELSE /\ UNCHANGED out
                 /\ results' = [results EXCEPT !["ITINERARY"] = ErrorWrapper]
    /\ agentSt' = [agentSt EXCEPT !["ITINERARY"] = "done"]
    /\ UNCHANGED <<rt, serverVars, pc, intent, requested, agents_needed, itinDays, shimmer_active, sh,
                   editVars, toolVars, ret, returned, saved, saveCount, launched>>

\* every awaited coroutine has returned or raised
AllAgentsDoneMut == TRUE
AllAgentsDone == \A i \in 1..Len(agents_needed) : agentSt[agents_needed[i]] = "done"

\* lines 173-182: the result log; result.get('itinerary', {}).get raises on the
\* ITINERARY error wrapper, whose "itinerary" value is a list
LogResultsRaises(res) == res["ITINERARY"].present /\ res["ITINERARY"].wrapper

AgentsReturn ==
    /\ pc = "agents"
    /\ AllAgentsDone
    /\ pc' = IF LogResultsRaises(results) THEN "top_error" ELSE "stop_shimmer"
    /\ UNCHANGED <<rt, serverVars, out, freshVars, editVars, toolVars, ret, returned, saved, saveCount, launched, threw>>

\* lines 184-191: clear the flag, cancel the task, then await it
StopShimmerMut ==
    /\ pc = "stop_shimmer"
    /\ pc' = "finalizing"
    /\ UNCHANGED <<rt, serverVars, out, intent, requested, agents_needed, agentSt, results, itinDays,
                   shimmer_active, sh, editVars, toolVars, ret, returned, saved, saveCount, launched, threw>>
StopShimmer ==
    /\ pc = "stop_shimmer"
    /\ shimmer_active' = FALSE
    /\ sh' = IF sh.pc \in {"done", "cancelled"} THEN sh ELSE [sh EXCEPT !.cancel = TRUE]
    /\ pc' = "await_shimmer"
    /\ UNCHANGED <<rt, serverVars, out, intent, requested, agents_needed, agentSt, results, itinDays,
                   editVars, toolVars, ret, returned, saved, saveCount, launched, threw>>

AwaitShimmer ==
    /\ pc = "await_shimmer"
    /\ sh.pc \in {"done", "cancelled"}
    /\ pc' = "finalizing"
    /\ UNCHANGED <<rt, serverVars, out, freshVars, editVars, toolVars, ret, returned, saved, saveCount, launched, threw>>

Finalizing ==
    /\ pc = "finalizing"
    /\ Emit(TextChunk("main", "finalizing"))
    /\ pc' = "summary"
    /\ UNCHANGED <<rt, serverVars, freshVars, editVars, toolVars, ret, returned, saved, saveCount, launched, threw>>

\* lines 198-223: summary, plan, summary segment, save, return
FinishRun ==
    /\ pc = "summary"
    /\ IF BuildPlanRaises(results, requested)
       THEN /\ pc' = "top_error"
            /\ UNCHANGED <<rt, serverVars, out, ret, returned, saved, saveCount>>
       ELSE LET summary == GenerateSummary(intent, results, requested)
                p == BuildPlan(intent, results, summary, requested)
            IN /\ Emit(Seg("summary", "main", "summary", <<summary.summary>>, TRUE))
               /\ saved' = [hasPlan |-> TRUE, plan |-> p]
               /\ saveCount' = saveCount + 1
               /\ ret' = p
               /\ returned' = TRUE
               /\ pc' = "done"
    /\ UNCHANGED <<rt, serverVars, freshVars, editVars, toolVars, launched, threw>>

\* lines 225-246: the top-level handler; the cancel is not awaited
TopErrorMut ==
    /\ pc = "top_error"
    /\ Emit(Seg("error", "main", "ORCHESTRATOR", <<>>, FALSE))
    /\ ret' = [EmptyPlan EXCEPT !.errors = <<[agent |-> "ORCHESTRATOR", message |-> "err"]>>]
    /\ returned' = TRUE
    /\ pc' = "done"
    /\ UNCHANGED <<rt, serverVars, intent, requested, agents_needed, agentSt, results, itinDays,
                   shimmer_active, sh, editVars, toolVars, saved, saveCount, launched, threw>>
TopError ==
    /\ pc = "top_error"
    /\ shimmer_active' = FALSE
    /\ sh' = IF sh.pc \in {"none", "done", "cancelled"} THEN sh ELSE [sh EXCEPT !.cancel = TRUE]
    /\ Emit(Seg("error", "main", "ORCHESTRATOR", <<>>, FALSE))
    /\ ret' = [EmptyPlan EXCEPT !.errors = <<[agent |-> "ORCHESTRATOR", message |-> "err"]>>]
    /\ returned' = TRUE
    /\ pc' = "done"
    /\ UNCHANGED <<rt, serverVars, intent, requested, agents_needed, agentSt, results, itinDays,
                   editVars, toolVars, saved, saveCount, launched, threw>>

-----------------------------------------------------------------------------
(* _shimmer_loop as a task of the event loop *)

\* first run of the task: the first message, then sleep(2)
ShimmerFirst ==
    /\ sh.pc = "created" /\ ~sh.cancel
    /\ MainSuspended
    /\ Emit(TextChunk("shimmer", ShimmerSteps(agents_needed)[1]))
    /\ sh' = [sh EXCEPT !.pc = "sleep0", !.step = 1]
    /\ UNCHANGED <<rt, serverVars, pc, intent, requested, agents_needed, agentSt, results, itinDays,
                   shimmer_active, editVars, toolVars, ret, returned, saved, saveCount, launched, threw>>

\* a sleep ends: next message while active and steps remain, else idle or end
ShimmerWake ==
    /\ sh.pc \in {"sleep0", "sleep", "idle"} /\ ~sh.cancel
    /\ MainSuspended
    /\ IF sh.pc # "idle" /\ shimmer_active /\ sh.step < Len(ShimmerSteps(agents_needed))
       THEN /\ Emit(TextChunk("shimmer", ShimmerSteps(agents_needed)[sh.step + 1]))
            /\ sh' = [sh EXCEPT !.pc = "sleep", !.step = sh.step + 1]
       ELSE /\ sh' = [sh EXCEPT !.pc = IF shimmer_active THEN "idle" ELSE "done"]
            /\ UNCHANGED out
    /\ UNCHANGED <<rt, serverVars, pc, intent, requested, agents_needed, agentSt, results, itinDays,
                   shimmer_active, editVars, toolVars, ret, returned, saved, saveCount, launched, threw>>

\* CancelledError is delivered at the task's await (or before its first run)
ShimmerCancelled ==
    /\ sh.cancel
    /\ MainSuspended
    /\ sh' = [sh EXCEPT !.cancel = FALSE,
                        !.pc = IF sh.pc = "created" THEN "cancelled"
                               ELSE IF sh.pc = "sleep" /\ shimmer_active THEN "idle"
                               ELSE "done"]
    /\ UNCHANGED <<rt, serverVars, pc, out, intent, requested, agents_needed, agentSt, results, itinDays,
                   shimmer_active, editVars, toolVars, ret, returned, saved, saveCount, launched, threw>>

-----------------------------------------------------------------------------
(* The streaming API (src/gemini_with_rotation.py).  A stream id is a number *)
(* (uuid4 never repeats one); time is counted in units of SESSION_TTL.       *)
MaxSessions == 2     \* most start_stream calls of a behaviour
SessionIds == 1..MaxSessions
Threads == {"t1", "t2"}
SESSION_TTL == 1

NoTask == [thread |-> "none", pc |-> "none", base |-> <<>>, outcome |-> "none"]
NoCleanup == [pc |-> "none", slept |-> 0]

\* the API process before any request
InitServerVars ==
    /\ stream_sessions = {}
    /\ queues = [i \in SessionIds |-> <<>>]
    /\ bg = [i \in SessionIds |-> NoTask]
    /\ cleanup = [i \in SessionIds |-> NoCleanup]
    /\ store = [t \in Threads |-> <<>>]
    /\ delivered = [i \in SessionIds |-> <<>>]
    /\ consumers = [i \in SessionIds |-> "none"]

-----------------------------------------------------------------------------
Origins == {"", "NYC"}
Destinations == {"", "LA"}

InitCommon ==
    /\ InitServerVars
    /\ out = <<>>
    /\ ret = EmptyPlan
    /\ returned = FALSE
    /\ saved = [hasPlan |-> FALSE, plan |-> EmptyPlan]
    /\ saveCount = 0
    /\ launched = {}
    /\ threw = {}
    /\ agentSt = [a \in Agents |-> "idle"]
    /\ results = [a \in Agents |-> NoResult]
    /\ itinDays = <<>>
    /\ agents_needed = <<>>
    /\ shimmer_active = FALSE
    /\ sh = NoShimmer
    /\ raised = FALSE
    /\ planner = NoPlannerCall
    /\ rotation = NoRotation
    /\ search = NoSearch

\* a fresh run, after the message was found travel-related and not an edit
InitFresh ==
    /\ InitCommon
    /\ pc = "initial_progress"
    /\ rt = NoRoute
    /\ intent \in [origin : Origins, destination : Destinations, depart_date : {0, D0},
                   return_date : {NoDate, D0 + 2}, trip_length : {0, 3}]
    /\ requested \in (SUBSET Agents) \ {{}}
    /\ plan = EmptyPlan /\ plan0 = EmptyPlan
    /\ edit_intent = NoEditIntent
    /\ msg = NoDatesMsg
    /\ now = [date |-> 20271104, midnight |-> FALSE]

NextFresh ==
    \/ SendInitialProgress
    \/ CheckMissing
    \/ UnderstandIntentRaises
    \/ Clarify
    \/ \E a \in Agents : AgentStart(a)
    \/ FlightFinish
    \/ HotelFinish
    \/ ItineraryDayDone
    \/ ItineraryFinish
    \/ AgentsReturn
    \/ StopShimmer
    \/ AwaitShimmer
    \/ Finalizing
    \/ FinishRun
    \/ TopError
    \/ ShimmerFirst
    \/ ShimmerWake
    \/ ShimmerCancelled

SpecFresh == InitFresh /\ [][NextFresh]_vars

-----------------------------------------------------------------------------
(* Plan editor: _handle_incremental_edit.  updated_plan = existing_plan is  *)
(* an alias, not a copy: `plan` is that one object, and intent is its       *)
(* request.                                                                 *)

\* new_intent of a dates edit layered onto the existing request (lines 530-545)
MergeDatesMut(req, new) ==
    [req EXCEPT !.depart_date = IF new.depart_date # 0 THEN new.depart_date ELSE @,
                !.return_date = IF new.return_date # NoDate THEN new.return_date ELSE @,
                !.origin = new.origin,
                !.destination = new.destination]
MergeDates(req, new) ==
    [req EXCEPT !.depart_date = IF new.depart_date # 0 THEN new.depart_date ELSE @,
                !.return_date = IF new.return_date # NoDate THEN new.return_date ELSE @,
                !.origin = IF new.origin # "" /\ new.origin # req.origin THEN new.origin ELSE @,
                !.destination = IF new.destination # "" /\ new.destination # req.destination
                                THEN new.destination ELSE @]

\* lines 583-590
MergeFlights(req, new) ==
    [req EXCEPT !.origin = IF new.origin # "" THEN new.origin ELSE @,
                !.destination = IF new.destination # "" THEN new.destination ELSE @,
                !.depart_date = IF new.depart_date # 0 THEN new.depart_date ELSE @,
                !.return_date = IF new.return_date \notin {NoDate, 0} THEN new.return_date ELSE @]

\* lines 600-603
MergeHotels(req, new) ==
    [req EXCEPT !.destination = IF new.destination # "" THEN new.destination ELSE @,
                !.depart_date = IF new.depart_date # 0 THEN new.depart_date ELSE @]

\* lines 621-655: the date the removal looks for; a date found in the message
\* text (year moved to the trip's year) replaces the intent's target_date
EffectiveTarget(ei, m, n, req) ==
    LET raw == ExtractDates(m, n)
        ex == IF raw # <<>> /\ req.depart_date # 0 THEN FixYears(raw, req.depart_date) ELSE raw
    IN IF ex # <<>> THEN ex[1] ELSE ei.target_date

\* lines 657-708: position (1-based) of the day to remove, 0 when none resolves
FindDayToRemoveMut(days, target, day_number) ==
    IF Len(days) > 0 THEN 1 ELSE 0
FindDayToRemove(days, target, day_number) ==
    IF target \notin {NoDate, 0}
    THEN LET hits == {i \in 1..Len(days) : days[i].date = target}
         IN IF hits = {} THEN 0 ELSE CHOOSE i \in hits : \A j \in hits : i <= j
    ELSE IF day_number # 0 /\ 1 <= day_number /\ day_number <= Len(days) THEN day_number
    ELSE 0

\* days.pop(day_to_remove)
PopDayMut(days, i) == SubSeq(days, 1, Len(days) - 1)
PopDay(days, i) == SubSeq(days, 1, i - 1) \o SubSeq(days, i + 1, Len(days))

\* the results mapping handed to _generate_summary at lines 1070-1074
PlanResults(p) ==
    [a \in Agents |-> [present |-> TRUE, has_error |-> FALSE, wrapper |-> FALSE,
                       items |-> IF a = "FLIGHTS" THEN p.flights
                                 ELSE IF a = "HOTELS" THEN p.hotels ELSE p.days,
                       reasoning |-> "none"]]

EditStart ==
    /\ pc = "edit_start"
    /\ Emit(TextChunk("main", "updating"))
    /\ pc' = CASE edit_intent.edit_type = "dates" -> "dates_intent"
               [] edit_intent.edit_type = "flights" -> "flights_intent"
               [] edit_intent.edit_type = "hotels" -> "hotels_intent"
               [] edit_intent.edit_type = "itinerary_remove" -> "remove"
               [] edit_intent.edit_type = "itinerary_day" /\ edit_intent.day_number # 0 -> "day_edit"
               [] edit_intent.edit_type = "itinerary_activity" -> "activity_edit"
               [] edit_intent.edit_type = "itinerary_swap" -> "swap_edit"
               [] OTHER -> "edit_summary"
    /\ UNCHANGED <<rt, serverVars, freshVars, editVars, toolVars, ret, returned, saved, saveCount, launched, threw>>

\* new_intent: what _understand_intent extracts from the edit message
NewIntents == [origin : {"", "BOS"}, destination : {"", "SEA"}, depart_date : {0, D0 + 1},
               return_date : {NoDate, 0, D0 + 3}, trip_length : {0}]

\* dates edit, lines 510-559: merge the new intent into the request, then
\* start the flights agent
DatesIntent ==
    /\ pc = "dates_intent"
    /\ \E new \in NewIntents :
         /\ intent' = new
         /\ plan' = [plan EXCEPT !.request = MergeDates(plan.request, new)]
    /\ Emit(TextChunk("main", "updating_flights"))
    /\ launched' = launched \cup {"FLIGHTS"}
    /\ pc' = "dates_flights"
    /\ UNCHANGED <<rt, serverVars, requested, agents_needed, agentSt, results, itinDays, shimmer_active, sh,
                   plan0, edit_intent, msg, now, raised, planner, toolVars, ret, returned, saved, saveCount, threw>>

\* flights edit, lines 578-593
FlightsIntent ==
    /\ pc = "flights_intent"
    /\ \E new \in NewIntents :
         /\ intent' = new
         /\ plan' = [plan EXCEPT !.request = MergeFlights(plan.request, new)]
    /\ Emit(TextChunk("main", "updating_flights"))
    /\ launched' = launched \cup {"FLIGHTS"}
    /\ pc' = "flights_run"
    /\ UNCHANGED <<rt, serverVars, requested, agents_needed, agentSt, results, itinDays, shimmer_active, sh,
                   plan0, edit_intent, msg, now, raised, planner, toolVars, ret, returned, saved, saveCount, threw>>

\* updated_plan.flights = [...] (lines 560, 594)
SetFlightsMut(p, items) == [p EXCEPT !.flights = items, !.hotels = <<>>]
SetFlights(p, items) == [p EXCEPT !.flights = items]

\* _run_flight_agent returns in an edit: flights replaced (lines 559-563, 593-594)
EditFlightsDone ==
    /\ pc \in {"dates_flights", "flights_run"}
    /\ \E ok \in BOOLEAN, items \in ItemLists :
         LET r == FlightResult(ok, items)
         IN /\ (~ok => items = <<>>)
            /\ threw' = IF ok THEN threw ELSE threw \cup {"FLIGHTS"}
            /\ plan' = SetFlights(plan, r.items)
            /\ IF pc = "dates_flights"
               THEN /\ out' = out \o <<Seg("flights", "FLIGHTS", "data", r.items, FALSE),
                                       TextChunk("main", "updating_hotels")>>
                    /\ launched' = launched \cup {"HOTELS"}
                    /\ pc' = "dates_hotels"
               ELSE /\ Emit(Seg("flights", "FLIGHTS", "data", r.items, FALSE))
                    /\ UNCHANGED launched
                    /\ pc' = "edit_summary"
    /\ UNCHANGED <<rt, serverVars, freshVars, plan0, edit_intent, msg, now, raised, planner, toolVars, ret, returned, saved, saveCount>>

\* hotels edit, lines 596-606
HotelsIntent ==
    /\ pc = "hotels_intent"
    /\ \E new \in NewIntents :
         /\ intent' = new
         /\ plan' = [plan EXCEPT !.request = MergeHotels(plan.request, new)]
    /\ Emit(TextChunk("main", "updating_hotels"))
    /\ launched' = launched \cup {"HOTELS"}
    /\ pc' = "hotels_run"
    /\ UNCHANGED <<rt, serverVars, requested, agents_needed, agentSt, results, itinDays, shimmer_active, sh,
                   plan0, edit_intent, msg, now, raised, planner, toolVars, ret, returned, saved, saveCount, threw>>

\* _run_hotel_agent returns or raises in an edit (lines 564-576, 606-607)
EditHotelsDone ==
    /\ pc \in {"dates_hotels", "hotels_run"}
    /\ \E ok \in BOOLEAN, items \in ItemLists :
         /\ (~ok => items = <<>>)
         /\ threw' = IF ok THEN threw ELSE threw \cup {"HOTELS"}
         /\ IF ~ok
            THEN /\ pc' = "edit_except"
                 /\ UNCHANGED <<rt, serverVars, out, plan, launched, itinDays>>
            ELSE IF pc = "dates_hotels" /\ plan.request.return_date \notin {NoDate, 0}
            THEN /\ out' = out \o <<Seg("hotels", "HOTELS", "data", items, FALSE),
                                    TextChunk("main", "updating_itinerary")>>
                 /\ plan' = [plan EXCEPT !.hotels = items]
                 /\ launched' = launched \cup {"ITINERARY"}
                 /\ itinDays' = <<>>
                 /\ pc' = "dates_itinerary"
            ELSE /\ Emit(Seg("hotels", "HOTELS", "data", items, FALSE))
                 /\ plan' = [plan EXCEPT !.hotels = items,
                                         !.days = IF pc = "dates_hotels" THEN <<>> ELSE @]
                 /\ UNCHANGED <<rt, serverVars, launched, itinDays>>
                 /\ pc' = "edit_summary"
    /\ UNCHANGED <<rt, serverVars, intent, requested, agents_needed, agentSt, results, shimmer_active, sh,
                   plan0, edit_intent, msg, now, raised, planner, toolVars, ret, returned, saved, saveCount>>

\* day_callback during a dates edit
EditItineraryDayDone ==
    /\ pc = "dates_itinerary"
    /\ Len(itinDays) < MaxDays
    /\ itinDays' = Append(itinDays, MkDay(Len(itinDays) + 1))
    /\ Emit(Seg("itinerary", "ITINERARY", "data", itinDays', FALSE))
    /\ UNCHANGED <<rt, serverVars, pc, intent, requested, agents_needed, agentSt, results, shimmer_active, sh,
                   editVars, toolVars, ret, returned, saved, saveCount, launched, threw>>

\* _run_itinerary_agent returns or raises during a dates edit (lines 570-573)
EditItineraryFinish ==
    /\ pc = "dates_itinerary"
    /\ \E ok \in BOOLEAN :
         /\ threw' = IF ok THEN threw ELSE threw \cup {"ITINERARY"}
         /\ IF ok
            THEN /\ IF itinDays # <<>>
                    THEN Emit(Seg("itinerary", "ITINERARY", "data", itinDays, FALSE))
                    ELSE UNCHANGED out
                 /\ plan' = [plan EXCEPT !.days = itinDays]
                 /\ pc' = "edit_summary"
            ELSE /\ UNCHANGED <<rt, serverVars, out, plan>>
                 /\ pc' = "edit_except"
    /\ UNCHANGED <<rt, serverVars, freshVars, plan0, edit_intent, msg, now, raised, planner, toolVars, ret, returned,
                   saved, saveCount, launched>>

\* itinerary_remove, lines 609-732
RemoveDay ==
    /\ pc = "remove"
    /\ LET target == EffectiveTarget(edit_intent, msg, now, plan.request)
           idx == FindDayToRemove(plan.days, target, edit_intent.day_number)
       IN IF idx # 0
          THEN /\ Emit(TextChunk("main", "removing_day"))
               /\ plan' = [plan EXCEPT !.days = PopDay(plan.days, idx)]
          ELSE /\ Emit(TextChunk("main", "could_not_find"))
               /\ UNCHANGED plan
    /\ pc' = "edit_summary"
    /\ UNCHANGED <<rt, serverVars, freshVars, plan0, edit_intent, msg, now, raised, planner, toolVars, ret, returned,
                   saved, saveCount, launched, threw>>

\* An activity name is the set of its words. A capitalised word is a word of
\* its own, and the two words below stand for white space before the first and
\* after the last word of the name.
SpaceBefore == "(space before)"
SpaceAfter == "(space after)"
LowerWord(w) == CASE w = "Museum" -> "museum"
                  [] w = "Cafe" -> "cafe"
                  [] w = "Park" -> "park"
                  [] OTHER -> w
\* name.lower()
LowerName(name) == {LowerWord(w) : w \in name}
\* name.strip()
StripName(name) == name \ {SpaceBefore, SpaceAfter}

NoUsedNames == [used_activity_names |-> {}, used_restaurant_names |-> {}]

\* `for activity in activities`, lines 786-799
RECURSIVE UsedInActivities(_, _)
UsedInActivities(activities, used) ==
    IF activities = <<>> THEN used
    ELSE LET activity == Head(activities)
             name_lower == StripName(LowerName(activity.name))
         IN UsedInActivities(Tail(activities),
                IF activity.category = "restaurant"
                THEN [used EXCEPT !.used_restaurant_names = @ \cup {name_lower}]
                ELSE [used EXCEPT !.used_activity_names = @ \cup {name_lower}])

\* `for block in blocks`, lines 779-784
RECURSIVE UsedInBlocks(_, _)
UsedInBlocks(blocks, used) ==
    IF blocks = <<>> THEN used
    ELSE UsedInBlocks(Tail(blocks), UsedInActivities(Head(blocks).activities, used))

\* `for idx, day in enumerate(days): if idx != day_index`, lines 770-777;
\* idx counts from 1 here, as day_number does
RECURSIVE UsedInDays(_, _, _, _)
UsedInDays(days, idx, day_number, used) ==
    IF idx > Len(days) THEN used
    ELSE UsedInDays(days, idx + 1, day_number,
                    IF idx # day_number THEN UsedInBlocks(days[idx].blocks, used) ELSE used)

\* used_activity_names and used_restaurant_names, lines 767-799 and 877-905
UsedNamesMut(days, day_number) == UsedInDays(days, 1, 0, NoUsedNames)
UsedNames(days, day_number) == UsedInDays(days, 1, day_number, NoUsedNames)

\* the arguments of `_plan_single_day(...)`, lines 802-811 and 908-917
PlannerArgs(days, day_number) ==
    [called |-> TRUE,
     target_date |-> days[day_number].date,
     used_activity_names |-> UsedNames(days, day_number).used_activity_names,
     used_restaurant_names |-> UsedNames(days, day_number).used_restaurant_names,
     day_number |-> day_number,
     total_days |-> Len(days)]

\* the Day _plan_single_day returns for target_date
RegeneratedDay(date) ==
    [date |-> date,
     blocks |-> <<[time |-> "morning", activities |-> <<[name |-> {"garden"}, category |-> "attraction"]>>]>>]

\* days[day_index] = new_day
ReplaceDayMut(days, i, d) == [days EXCEPT ![1] = d]
ReplaceDay(days, i, d) == [days EXCEPT ![i] = d]

\* `1 <= day_number <= len(days)`
DayInRange(k, days) == 1 <= k /\ k <= Len(days)

\* a clarification response of the editor: the segments `pre` already sent,
\* the clarification text, a final summary holding it, then `return existing_plan`
ClarifyEdit(pre, tag) ==
    /\ out' = out \o pre \o <<TextChunk("main", tag), Seg("summary", "main", tag, <<>>, TRUE)>>
    /\ ret' = plan
    /\ returned' = TRUE
    /\ pc' = "done"
    /\ UNCHANGED <<plan, launched>>

\* itinerary_day with a day_number, lines 734-750 and 826-827
DayEdit ==
    /\ pc = "day_edit"
    /\ IF DayInRange(edit_intent.day_number, plan.days)
       THEN /\ Emit(TextChunk("main", "regenerating_day"))
            /\ launched' = launched \cup {"SEARCH"}
            /\ pc' = "day_regen"
       ELSE /\ pc' = "edit_summary"
            /\ UNCHANGED <<out, launched>>
    /\ UNCHANGED <<rt, serverVars, freshVars, editVars, toolVars, ret, returned, saved, saveCount, threw>>

\* `if not day_number or not activity_name`, line 838
ActivityUnderspecifiedMut(ei) == ei.day_number = 0
ActivityUnderspecified(ei) == ei.day_number = 0 \/ ei.activity_name = ""

\* itinerary_activity, lines 829-862 and 930-940
ActivityEdit ==
    /\ pc = "activity_edit"
    /\ IF ActivityUnderspecified(edit_intent)
       THEN ClarifyEdit(<<>>, "clarify_activity")
       ELSE IF DayInRange(edit_intent.day_number, plan.days)
       THEN /\ Emit(TextChunk("main", "updating_day"))
            /\ launched' = launched \cup {"SEARCH"}
            /\ pc' = "day_regen"
            /\ UNCHANGED <<plan, ret, returned>>
       ELSE ClarifyEdit(<<>>, "clarify_day_number")
    /\ UNCHANGED <<rt, serverVars, freshVars, plan0, edit_intent, msg, now, raised, planner, toolVars, saved, saveCount, threw>>

\* the activity searches return or raise; after them the used names are
\* gathered and _plan_single_day is called, which returns or raises; on its
\* return the day is replaced in place (lines 756-825, 866-929)
DayRegenDone ==
    /\ pc = "day_regen"
    /\ \E searched \in BOOLEAN, ok \in BOOLEAN :
         LET args == PlannerArgs(plan.days, edit_intent.day_number)
         IN /\ planner' = IF searched THEN args ELSE planner
            /\ IF searched /\ ok
               THEN /\ plan' = [plan EXCEPT !.days = ReplaceDay(@, edit_intent.day_number,
                                                              RegeneratedDay(args.target_date))]
                    /\ pc' = "edit_summary"
                    /\ UNCHANGED threw
               ELSE /\ threw' = threw \cup {"SEARCH"}
                    /\ pc' = "edit_except"
                    /\ UNCHANGED plan
    /\ UNCHANGED <<rt, serverVars, out, freshVars, plan0, edit_intent, msg, now, raised, toolVars, ret, returned,
                   saved, saveCount, launched>>

\* index of the first block with a time label, 0 when there is none
\* (the `next(...)` searches of lines 1021-1022)
FirstWithTime(blocks, t) ==
    LET hits == {i \in 1..Len(blocks) : blocks[i].time = t}
    IN IF hits = {} THEN 0 ELSE CHOOSE i \in hits : \A j \in hits : i <= j

\* `activity_name.lower() in name.lower()` for some activity of the block
NameMatches(pattern, block) ==
    \E i \in 1..Len(block.activities) : pattern \in block.activities[i].name

\* lines 1025-1042: the two blocks change places (one list when both days are the same)
ExchangeBlocks(days, s, si, t, tj) ==
    IF s = t THEN days
    ELSE [days EXCEPT ![s].blocks = [@ EXCEPT ![si] = days[t].blocks[tj]],
                      ![t].blocks = [@ EXCEPT ![tj] = days[s].blocks[si]]]

\* lines 986-1047: the loop over source_blocks, from block i on; the second
\* `break` leaves the activities loop only, so the loop goes on to block i+1
RECURSIVE SwapFrom(_, _, _, _, _, _)
SwapFrom(days, s, t, name, i, src) ==
    IF i > Len(src) THEN days
    ELSE LET tj == FirstWithTime(days[t].blocks, src[i].time)
             si == FirstWithTime(days[s].blocks, src[i].time)
         IN IF NameMatches(name, src[i]) /\ tj # 0 /\ si # 0
            THEN SwapFrom(ExchangeBlocks(days, s, si, t, tj), s, t, name, i + 1, src)
            ELSE SwapFrom(days, s, t, name, i + 1, src)

SwapBlocks(days, s, t, name) == SwapFrom(days, s, t, name, 1, days[s].blocks)

\* itinerary_swap, lines 942-1067
SwapEdit ==
    /\ pc = "swap_edit"
    /\ LET s == edit_intent.source_day
           t == edit_intent.target_day
       IN IF s = 0 \/ t = 0
          THEN ClarifyEdit(<<>>, "clarify_swap_days")
          ELSE IF DayInRange(s, plan.days) /\ DayInRange(t, plan.days)
          THEN IF edit_intent.activity_name # ""
               THEN /\ Emit(TextChunk("main", "swapping"))
                    /\ plan' = [plan EXCEPT !.days = SwapBlocks(@, s, t, edit_intent.activity_name)]
                    /\ pc' = "edit_summary"
                    /\ UNCHANGED <<ret, returned, launched>>
               ELSE ClarifyEdit(<<TextChunk("main", "swapping")>>, "clarify_swap_activity")
          ELSE ClarifyEdit(<<>>, "clarify_swap_range")
    /\ UNCHANGED <<rt, serverVars, freshVars, plan0, edit_intent, msg, now, raised, planner, toolVars, saved, saveCount, threw>>

\* lines 1069-1092: regenerate the summary, stream it, save and return the plan
EditSummary ==
    /\ pc = "edit_summary"
    /\ LET summary == GenerateSummary(plan.request, PlanResults(plan), {})
           p == [plan EXCEPT !.summary = summary.summary]
       IN /\ plan' = p
          /\ Emit(Seg("summary", "main", "summary", <<p.summary>>, TRUE))
          /\ saved' = [hasPlan |-> TRUE, plan |-> p]
          /\ ret' = p
    /\ saveCount' = saveCount + 1
    /\ returned' = TRUE
    /\ pc' = "done"
    /\ UNCHANGED <<rt, serverVars, freshVars, plan0, edit_intent, msg, now, raised, planner, toolVars, launched, threw>>

\* lines 1094-1097: the except clause returns existing_plan, the object the
\* edit has been writing to
EditExcept ==
    /\ pc = "edit_except"
    /\ raised' = TRUE
    /\ ret' = plan
    /\ returned' = TRUE
    /\ pc' = "done"
    /\ UNCHANGED <<rt, serverVars, out, freshVars, plan, plan0, edit_intent, msg, now, planner, toolVars, saved, saveCount,
                   launched, threw>>

\* an existing plan as a fresh run built it, for the components then requested
ExistingPlan(n, req) ==
    LET it == [origin |-> "NYC", destination |-> "LA", depart_date |-> D0,
               return_date |-> IF n > 0 THEN D0 + n ELSE NoDate, trip_length |-> 0]
        res == [a \in Agents |->
                  IF a \notin req THEN NoResult
                  ELSE OkResult(IF a = "ITINERARY" THEN DaysUpTo(n) ELSE <<1>>)]
    IN BuildPlan(it, res, GenerateSummary(it, res, req), req)

EditTypes == {"dates", "flights", "hotels", "itinerary_day", "itinerary_remove",
              "itinerary_activity", "itinerary_swap", "full"}
DayNumbers == 0..(MaxPlanDays + 1)
ActivityNames == {"", "museum", "beach"}
\* the fields an edit type reads; the others are absent
EditIntents ==
    {[NoEditIntent EXCEPT !.edit_type = t] : t \in {"dates", "flights", "hotels", "full"}}
    \cup {[NoEditIntent EXCEPT !.edit_type = "itinerary_remove", !.target_date = d, !.day_number = k] :
            d \in {NoDate} \cup {D0 + j : j \in 0..MaxPlanDays}, k \in DayNumbers}
    \cup {[NoEditIntent EXCEPT !.edit_type = "itinerary_day", !.day_number = k] : k \in DayNumbers}
    \cup {[NoEditIntent EXCEPT !.edit_type = "itinerary_activity", !.day_number = k, !.activity_name = a] :
            k \in DayNumbers, a \in ActivityNames}
    \cup {[NoEditIntent EXCEPT !.edit_type = "itinerary_swap", !.source_day = k, !.target_day = j,
                               !.activity_name = a] :
            k \in DayNumbers, j \in DayNumbers, a \in ActivityNames}
EditMsgs ==
    {NoDatesMsg, [iso |-> <<D0 + 1>>, nl |-> <<>>, ret_day |-> 0]}
    \cup {[iso |-> <<>>, nl |-> <<[form |-> "md", d |-> DayOf(D0) + k, m |-> 12]>>, ret_day |-> 0] :
            k \in 0..MaxPlanDays}
Nows == {[date |-> 20271104, midnight |-> FALSE], [date |-> 20271221, midnight |-> FALSE]}

\* an edit run: a prior plan exists and an edit intent was detected
InitEdit ==
    /\ InitCommon
    /\ pc = "edit_start"
    /\ rt = NoRoute
    /\ intent = EmptyRequest
    /\ requested = {}
    /\ \E n \in 0..MaxPlanDays, req \in {Agents, {"ITINERARY"}} : plan = ExistingPlan(n, req)
    /\ plan0 = plan
    /\ edit_intent \in EditIntents
    /\ msg \in EditMsgs
    /\ now \in Nows
    /\ edit_intent.edit_type # "itinerary_remove"
       => (msg = NoDatesMsg /\ now.date = 20271104)

NextEdit ==
    \/ EditStart
    \/ DatesIntent
    \/ FlightsIntent
    \/ HotelsIntent
    \/ EditFlightsDone
    \/ EditHotelsDone
    \/ EditItineraryDayDone
    \/ EditItineraryFinish
    \/ RemoveDay
    \/ DayEdit
    \/ ActivityEdit
    \/ DayRegenDone
    \/ SwapEdit
    \/ EditSummary
    \/ EditExcept

SpecEdit == InitEdit /\ [][NextEdit]_vars

-----------------------------------------------------------------------------
(* Intent classification: the head of process_request_stream (lines 46-128). *)
(* A message is modelled by the words it is made of (rt.words) and by what   *)
(* the date patterns find in it (msg).                                        *)

\* strong_travel_keywords, lines 256-265
strong_travel_keywords == {"travel", "trip", "flight", "hotel", "vacation", "holiday",
    "journey", "destination", "visit", "tour", "itinerary", "booking", "reservation",
    "airport", "airline", "accommodation", "stay", "lodging", "resort", "attraction",
    "sightseeing", "restaurant", "dining", "cuisine", "go to", "going to",
    "plan a trip", "plan trip", "planning a trip", "schedule", "depart", "arrive",
    "round trip", "one way", "return", "departure", "arrival", "book flight",
    "book hotel", "find flight", "find hotel", "search flight", "search hotel"}
\* edit_keywords, lines 405-409
edit_keywordsMut == {"change", "edit", "update", "modify", "replace", "swap", "redo",
    "regenerate", "different", "instead", "instead of", "rather than"}
edit_keywords == {"change", "edit", "update", "modify", "replace", "swap", "remove",
    "delete", "redo", "regenerate", "different", "instead", "instead of",
    "rather than", "block", "skip", "cancel"}
\* removal_keywords, lines 74-74
removal_keywords == {"block", "remove", "delete", "skip", "cancel"}
\* date_keywords, lines 75-77
date_keywords == {"december", "january", "february", "march", "april", "may", "june",
    "july", "august", "september", "october", "november", "dec", "jan", "feb", "mar",
    "apr", "jun", "jul", "aug", "sep", "oct", "nov"}
\* flight_keywords, lines 1114-1118
flight_keywords == {"flight", "flights", "airline", "airlines", "fly", "flying",
    "airport", "book flight", "find flight", "search flight", "show flight",
    "get flight", "flight options", "tickets", "ticket", "how to get there by air",
    "air travel"}
\* hotel_keywords, lines 1119-1123
hotel_keywords == {"hotel", "hotels", "accommodation", "accommodations", "stay",
    "staying", "lodging", "resort", "book hotel", "find hotel", "search hotel",
    "show hotel", "get hotel", "hotel options", "where to stay", "place to stay"}
\* itinerary_keywords, lines 1125-1130
itinerary_keywords == {"itinerary", "itineraries", "places to visit", "places to see",
    "attractions", "sightseeing", "things to do", "activities", "day by day",
    "what to do", "where to go", "places to explore", "where to eat", "restaurants",
    "dining", "places to eat", "things to see", "sights", "tourist spots",
    "must see"}
\* full_plan_keywords, lines 1133-1137
full_plan_keywords == {"plan a trip", "plan trip", "planning a trip",
    "plan everything", "full plan", "make a trip plan", "create a trip plan",
    "trip plan", "complete plan", "entire plan", "whole plan"}

\* the keywords of the lists above (and 'only', 'just') that occur in each word as
\* a substring: `keyword in message_lower`
Contained(w) ==
    CASE w = "flights" -> {"flight", "flights"}
      [] w = "tickets" -> {"ticket", "tickets"}
      [] w = "hotel" -> {"hotel"}
      [] w = "restaurants" -> {"restaurant", "restaurants"}
      [] w = "trip plan" -> {"trip", "trip plan"}
      [] w = "only" -> {"only"}
      [] w = "remove" -> {"remove"}
      [] w = "change" -> {"change"}
      [] w = "december" -> {"dec", "december"}
      [] w = "january" -> {"jan", "january"}
      [] w = "block" -> {"block"}
      [] OTHER -> {}

Vocabulary == {"flights", "tickets", "hotel", "restaurants", "trip plan", "only",
               "remove", "change", "december"}

\* any(keyword in message_lower for keyword in kws)
Has(kws, words) == \E w \in words : Contained(w) \cap kws # {}

\* `sub in s` on strings, as sequences of characters
Contains(sub, s) ==
    \E i \in 0..(Len(s) - Len(sub)) : SubSeq(s, i + 1, i + Len(sub)) = sub

\* str.lower() on the letters that occur in the modelled answers
LowerChar(c) == IF c = "Y" THEN "y" ELSE IF c = "N" THEN "n" ELSE IF c = "O" THEN "o" ELSE c
Lower(s) == [i \in 1..Len(s) |-> LowerChar(s[i])]

\* is_travel = "yes" in response and "no" not in response (line 301)
TravelVerdictMut(text) == Contains(<<"y", "e", "s">>, Lower(text))
TravelVerdict(text) ==
    /\ Contains(<<"y", "e", "s">>, Lower(text))
    /\ ~Contains(<<"n", "o">>, Lower(text))

\* what the yes/no classification call returns: ok FALSE when it raises
YesNoAnswers ==
    {NoAnswer}
    \cup {[ok |-> TRUE, text |-> t] :
            t \in {<<"y", "e", "s">>, <<"Y", "e", "s", ".">>, <<"n", "o">>, <<"N", "O">>,
                   <<"y", "e", "s", " ", "o", "r", " ", "n", "o">>,
                   <<"m", "a", "y", "b", "e">>, <<>>}}

\* _is_travel_related, lines 248-308
IsTravelRelated ==
    /\ pc = "travel_check"
    /\ IF Has(strong_travel_keywords, rt.words)
       THEN rt' = [rt EXCEPT !.travel = "yes"]
       ELSE \E a \in YesNoAnswers :
              rt' = [rt EXCEPT !.asked = @ \cup {"travel"},
                               !.travel_resp = a,
                               !.travel = IF a.ok /\ TravelVerdict(a.text) THEN "yes" ELSE "no"]
    /\ pc' = IF rt'.travel = "yes" THEN "load_plan" ELSE "non_travel"
    /\ UNCHANGED <<serverVars, out, freshVars, editVars, toolVars, ret, returned, saved, saveCount, launched, threw>>

\* _handle_non_travel_query, lines 310-386: answer (or the stock opening when
\* the answer call raises), redirect text, final summary, save without a plan
HandleNonTravelQuery ==
    /\ pc = "non_travel"
    /\ rt' = [rt EXCEPT !.asked = @ \cup {"answer"}]
    /\ out' = out \o <<TextChunk("main", "non_travel"),
                       Seg("summary", "main", "non_travel", <<>>, TRUE)>>
    /\ saved' = [hasPlan |-> FALSE, plan |-> EmptyPlan]
    /\ saveCount' = saveCount + 1
    /\ ret' = [EmptyPlan EXCEPT !.summary = [scope |-> "non_travel", parts |-> <<>>]]
    /\ returned' = TRUE
    /\ pc' = "done"
    /\ UNCHANGED <<serverVars, freshVars, editVars, toolVars, launched, threw>>

\* lines 54-64: load the thread's latest plan; a stored plan that does not
\* parse counts as none
LoadPlan ==
    /\ pc = "load_plan"
    /\ \E parses \in BOOLEAN :
         rt' = [rt EXCEPT !.loaded = TRUE, !.existing = rt.prior /\ parses]
    /\ pc' = "detect_edit"
    /\ UNCHANGED <<serverVars, out, freshVars, editVars, toolVars, ret, returned, saved, saveCount, launched, threw>>

\* what the edit classifier call yields once its JSON is parsed: ok FALSE when
\* the call raises or the text holds no valid JSON object
EditAnswers ==
    [ok : BOOLEAN, is_edit : BOOLEAN,
     intent : {NoEditIntent, [NoEditIntent EXCEPT !.edit_type = "full"],
               [NoEditIntent EXCEPT !.edit_type = "itinerary_remove", !.target_date = D0]}]

\* _detect_edit_intent, lines 388-483: the intent, or NoEditIntent for None
DetectEditIntent(existing, words, a) ==
    IF ~existing THEN NoEditIntent
    ELSE IF ~Has(edit_keywords, words) THEN NoEditIntent
    ELSE IF a.ok /\ a.is_edit /\ a.intent.edit_type # "none" THEN a.intent
    ELSE NoEditIntent

\* line 67
DetectEdit ==
    /\ pc = "detect_edit"
    /\ \E a \in EditAnswers :
         /\ (~(rt.existing /\ Has(edit_keywords, rt.words)) => a = [ok |-> FALSE, is_edit |-> FALSE, intent |-> NoEditIntent])
         /\ edit_intent' = DetectEditIntent(rt.existing, rt.words, a)
    /\ rt' = [rt EXCEPT !.detected = TRUE,
                        !.asked = IF rt.existing /\ Has(edit_keywords, rt.words)
                                  THEN @ \cup {"edit"} ELSE @]
    /\ pc' = "edit_fallback"
    /\ UNCHANGED <<serverVars, out, freshVars, plan, plan0, msg, now, raised, planner, toolVars, ret, returned, saved,
                   saveCount, launched, threw>>

\* lines 69-112: the removal fallback, NoEditIntent when it does not apply
FallbackIntent(words, m, n, p) ==
    IF Has(removal_keywords, words) /\ Has(date_keywords, words)
    THEN LET raw == ExtractDates(m, n)
             ex == IF raw # <<>> /\ p.request.depart_date # 0
                   THEN FixYears(raw, p.request.depart_date) ELSE raw
         IN IF ex # <<>>
            THEN [NoEditIntent EXCEPT !.edit_type = "itinerary_remove", !.target_date = ex[1]]
            ELSE NoEditIntent
    ELSE NoEditIntent

\* lines 69-121: apply the fallback, then hand an edit intent with an
\* existing plan to the editor; everything else goes on to the fresh path
EditFallback ==
    /\ pc = "edit_fallback"
    /\ LET tryFallback == edit_intent = NoEditIntent /\ rt.existing
           ei == IF tryFallback THEN FallbackIntent(rt.words, msg, now, plan) ELSE edit_intent
       IN /\ edit_intent' = ei
          /\ rt' = [rt EXCEPT !.fallback = tryFallback /\ ei # NoEditIntent]
          /\ pc' = IF ei # NoEditIntent /\ rt.existing THEN "edit_path" ELSE "understand"
    /\ UNCHANGED <<serverVars, out, freshVars, plan, plan0, msg, now, raised, planner, toolVars, ret, returned, saved,
                   saveCount, launched, threw>>

\* the words the component classifier's upper-cased answer is searched for
\* (lines 1186-1195); an answer is modelled by which of them it contains,
\* ok FALSE when the call raises
Markers == {"FLIGHT", "HOTEL", "ITINERARY", "PLACES", "VISIT"}
ComponentAnswers ==
    {NoComponentAnswer}
    \cup {[ok |-> TRUE, marks |-> M] : M \in {S \in SUBSET Markers : Cardinality(S) <= 2}}

\* lines 1201-1225: the keyword-count rules
KeywordCountRulesMut(F, H, I) ==
    IF F /\ ~H /\ ~I THEN <<"FLIGHTS">>
    ELSE IF H /\ ~F /\ ~I THEN <<"HOTELS">>
    ELSE IF I /\ ~F /\ ~H THEN <<"ITINERARY">>
    ELSE <<"FLIGHTS", "HOTELS", "ITINERARY">>
KeywordCountRules(F, H, I) ==
    IF F /\ H /\ ~I THEN <<"FLIGHTS", "HOTELS">>
    ELSE IF H /\ I /\ ~F THEN <<"HOTELS", "ITINERARY">>
    ELSE IF F /\ I /\ ~H THEN <<"FLIGHTS", "ITINERARY">>
    ELSE IF F /\ ~H /\ ~I THEN <<"FLIGHTS">>
    ELSE IF H /\ ~F /\ ~I THEN <<"HOTELS">>
    ELSE IF I /\ ~F /\ ~H THEN <<"ITINERARY">>
    ELSE <<"FLIGHTS", "HOTELS", "ITINERARY">>

\* lines 1186-1195: the single component read from the classifier's answer,
\* <<>> when the answer names none (ALL, malformed) or the call raised
ClassifierChoice(a) ==
    IF ~a.ok THEN <<>>
    ELSE IF "FLIGHT" \in a.marks /\ "HOTEL" \notin a.marks /\ "ITINERARY" \notin a.marks
    THEN <<"FLIGHTS">>
    ELSE IF "HOTEL" \in a.marks /\ "FLIGHT" \notin a.marks /\ "ITINERARY" \notin a.marks
    THEN <<"HOTELS">>
    ELSE IF a.marks \cap {"ITINERARY", "PLACES", "VISIT"} # {} THEN <<"ITINERARY">>
    ELSE <<>>

\* _detect_requested_components, lines 1099-1225
DetectRequestedComponents(words, a) ==
    LET F == Has(flight_keywords, words)
        H == Has(hotel_keywords, words)
        I == Has(itinerary_keywords, words)
        has_only == Has({"only", "just"}, words)
    IN IF Has(full_plan_keywords, words)
       THEN [components |-> <<"FLIGHTS", "HOTELS", "ITINERARY">>, consulted |-> FALSE]
       ELSE IF has_only /\ F /\ ~H /\ ~I THEN [components |-> <<"FLIGHTS">>, consulted |-> FALSE]
       ELSE IF has_only /\ H /\ ~F /\ ~I THEN [components |-> <<"HOTELS">>, consulted |-> FALSE]
       ELSE IF has_only /\ I /\ ~F /\ ~H THEN [components |-> <<"ITINERARY">>, consulted |-> FALSE]
       ELSE IF has_only /\ (F \/ H \/ I)
       THEN [components |-> IF ClassifierChoice(a) # <<>> THEN ClassifierChoice(a)
                            ELSE KeywordCountRules(F, H, I),
             consulted |-> TRUE]
       ELSE [components |-> KeywordCountRules(F, H, I), consulted |-> FALSE]

\* lines 124-128: the initial progress text, then _understand_intent, which
\* begins with the component detection (line 1236)
UnderstandIntent ==
    /\ pc = "understand"
    /\ \E a \in ComponentAnswers :
         LET d == DetectRequestedComponents(rt.words, a)
         IN /\ (~d.consulted => a = NoComponentAnswer)
            /\ rt' = [rt EXCEPT !.components = d.components,
                                !.comp_resp = a,
                                !.asked = IF d.consulted THEN @ \cup {"components"} ELSE @]
            /\ requested' = SeqToSet(d.components)
    /\ Emit(TextChunk("main", "initial"))
    /\ pc' = "fresh_path"
    /\ UNCHANGED <<serverVars, intent, agents_needed, agentSt, results, itinDays, shimmer_active, sh,
                   editVars, toolVars, ret, returned, saved, saveCount, launched, threw>>

\* date content of the modelled messages: a month-first mention needs the
\* month's name among the words
RouteMsgs(words) ==
    {NoDatesMsg, [iso |-> <<D0 + 1>>, nl |-> <<>>, ret_day |-> 0]}
    \cup (IF "december" \in words
          THEN {[iso |-> <<>>, nl |-> <<[form |-> "md", d |-> DayOf(D0) + 1, m |-> 12]>>, ret_day |-> 0]}
          ELSE {})

\* a run from its first step; a thread with a prior plan has a two-day plan
InitRoute ==
    /\ InitCommon
    /\ pc = "travel_check"
    /\ \E W \in SUBSET Vocabulary, prior \in BOOLEAN :
         /\ rt = [NoRoute EXCEPT !.words = W, !.prior = prior]
         /\ msg \in RouteMsgs(W)
         /\ plan = IF prior THEN ExistingPlan(MaxDays, Agents) ELSE EmptyPlan
    /\ plan0 = plan
    /\ intent = EmptyRequest
    /\ requested = {}
    /\ edit_intent = NoEditIntent
    /\ now = [date |-> 20271104, midnight |-> FALSE]

NextRoute ==
    \/ IsTravelRelated
    \/ HandleNonTravelQuery
    \/ LoadPlan
    \/ DetectEdit
    \/ EditFallback
    \/ UnderstandIntent

SpecRoute == InitRoute /\ [][NextRoute]_vars

-----------------------------------------------------------------------------
(* Properties of the fresh-request run (SpecFresh) *)

Selected == SeqToSet(agents_needed)
DataTypes == {"flights", "hotels", "itinerary"}
Section(p, a) == IF a = "FLIGHTS" THEN p.flights ELSE IF a = "HOTELS" THEN p.hotels ELSE p.days
SupervisorReturned == pc \in {"stop_shimmer", "top_error", "await_shimmer", "finalizing", "summary", "done"}
                      /\ Selected # {}

\* C1: when exactly one selected agent X throws and the others succeed, the run
\* completes normally and the final Plan holds the others' full data, an empty
\* section for X and exactly one ErrorItem, whose agent is X.
C1_SingleFailureIsolated ==
    \A X \in Agents :
        (returned /\ Selected # {} /\ threw = {X})
        => /\ \A i \in 1..Len(out) : out[i].type # "error"
           /\ saved.hasPlan /\ saved.plan = ret
           /\ Section(ret, X) = <<>>
           /\ \A a \in Selected \ {X} : Section(ret, a) = results[a].items
           /\ ret.errors = <<[agent |-> X, message |-> "err"]>>

\* C2: the supervisor's mapping has exactly one entry per selected agent and
\* none for an unselected one; an agent that did not throw has its raw result
\* recorded, an agent that threw has an entry carrying an `error` key.
C2_SupervisorMapping ==
    SupervisorReturned
    => \A a \in Agents :
          /\ results[a].present <=> a \in Selected
          /\ (a \in Selected \ threw) => (~results[a].has_error /\ results[a].reasoning = "ok")
          /\ (a \in threw) => results[a].has_error

\* C3: every selected agent is launched before any of them is awaited to
\* completion: no agent has finished while another selected agent is not started.
C3_LaunchedBeforeAwaited ==
    \A a \in Selected, b \in Selected : agentSt[a] = "done" => agentSt[b] # "idle"

IsTerminalSeg(s) ==
    \/ s.type = "text" /\ s.tag = "finalizing"
    \/ s.type = "summary"
    \/ s.type = "error"

\* C4: no Progress Reporter message follows the 'Finalizing' chunk, the final
\* summary segment or the error segment, under any interleaving.
C4_NoProgressAfterEnd ==
    \A i \in 1..Len(out), j \in 1..Len(out) :
        (i < j /\ IsTerminalSeg(out[i])) => out[j].src # "shimmer"

\* the reporter was cancelled in the middle of its message sequence and the run finished
C4_Witness ==
    /\ returned
    /\ \E i \in 1..Len(out) : out[i].tag = "finalizing"
    /\ sh.pc = "done" /\ sh.step >= 1 /\ sh.step < Len(ShimmerSteps(agents_needed))

C6_ClarificationOnly ==
    (CheckMissingInformation(intent, requested) # <<>> /\ pc \notin {"initial_progress", "check_missing"})
    => /\ launched = {} /\ sh = NoShimmer /\ ~shimmer_active
       /\ returned => /\ Len(out) = 3
                      /\ out[1] = TextChunk("main", "initial")
                      /\ out[2] = TextChunk("main", "clarification")
                      /\ out[3] = Seg("summary", "main", "clarification", <<ret.summary>>, TRUE)
                      /\ ret.flights = <<>> /\ ret.hotels = <<>> /\ ret.days = <<>>
                      /\ ret.request = intent

C6_Witness ==
    /\ returned
    /\ Len(CheckMissingInformation(intent, requested)) = 1
    /\ "FLIGHTS" \in requested

-----------------------------------------------------------------------------
(* Properties of the plan editor (SpecEdit) *)

IsRemoveEdit == edit_intent.edit_type = "itinerary_remove"
RemoveApplied == IsRemoveEdit /\ pc \in {"edit_summary", "done"}
DaysWithDate(days, dt) == {i \in 1..Len(days) : days[i].date = dt}
WithoutDate(days, dt) == SelectSeq(days, LAMBDA d : d.date # dt)
WithoutIndex(days, k) == [i \in 1..(Len(days) - 1) |-> IF i < k THEN days[i] ELSE days[i + 1]]
LookedUpDate == EffectiveTarget(edit_intent, msg, now, plan0.request)
HasText(tag) == \E i \in 1..Len(out) : out[i].type = "text" /\ out[i].tag = tag

\* C7: when an exception is raised during an edit, the editor returns a Plan
\* equal in every field to the Plan before the edit began, and nothing is saved.
C7_FailedEditReturnsPreEditPlan ==
    (returned /\ raised) => (ret = plan0 /\ saveCount = 0)

\* C8 (as claimed): an itinerary_remove whose target_date equals the date of an
\* existing Day leaves exactly the other N-1 days, in order, whatever the message says.
C8_RemoveByTargetDate ==
    (RemoveApplied /\ DaysWithDate(plan0.days, edit_intent.target_date) # {})
    => /\ Len(plan.days) = Len(plan0.days) - 1
       /\ plan.days = WithoutDate(plan0.days, edit_intent.target_date)

\* C8 (amended): an itinerary_remove whose looked-up date (the first date found
\* in the message with its year set to the trip's year, else target_date)
\* equals the date of an existing Day leaves exactly the other N-1 days, unchanged
\* and in their original order.
C8_RemoveByLookedUpDate ==
    (RemoveApplied /\ DaysWithDate(plan0.days, LookedUpDate) # {})
    => /\ Len(plan.days) = Len(plan0.days) - 1
       /\ DaysWithDate(plan.days, LookedUpDate) = {}
       /\ plan.days = WithoutDate(plan0.days, LookedUpDate)

\* a middle day of a three-day itinerary was removed by a date named in the
\* message that differs from the intent's target_date
C8_Witness ==
    /\ returned /\ IsRemoveEdit
    /\ Len(plan0.days) = 3
    /\ DaysWithDate(plan0.days, LookedUpDate) = {2}
    /\ LookedUpDate # edit_intent.target_date
    /\ YearOf(ExtractDates(msg, now)[1]) # YearOf(D0)

\* C9: the day is resolved by date first and, when the date resolves no day
\* (absent or matching none), by 1-based day_number within 1..N.
C9_DayNumberFallback ==
    RemoveApplied
    => LET hits == DaysWithDate(plan0.days, LookedUpDate)
           k == edit_intent.day_number
       IN IF hits # {} THEN plan.days = WithoutDate(plan0.days, LookedUpDate)
          ELSE (k >= 1 /\ k <= Len(plan0.days)) => plan.days = WithoutIndex(plan0.days, k)

NoDayResolves ==
    /\ IsRemoveEdit
    /\ DaysWithDate(plan0.days, LookedUpDate) = {}
    /\ ~(edit_intent.day_number >= 1 /\ edit_intent.day_number <= Len(plan0.days))

-----------------------------------------------------------------------------
(* Properties of the other edit types (SpecEdit) *)

EditType == edit_intent.edit_type
ItineraryEditTypes == {"itinerary_remove", "itinerary_day", "itinerary_activity", "itinerary_swap"}
HasReturnDate(req) == req.return_date \notin {NoDate, 0}

\* C11: an edit classified as `full` behaves like the fresh-request path on the
\* edit message: the existing plan is discarded and the selected agents (never
\* an empty selection) are re-run, so a returned full edit has launched an agent.
C11_FullEditRerunsAgents ==
    (returned /\ EditType = "full") => (launched \cap Agents # {} /\ ~raised)

\* C12: a flights edit invokes only the flights agent and leaves hotels and
\* days unchanged; a hotels edit invokes only the hotels agent and leaves
\* flights and days unchanged; the itinerary_* edits never invoke the flights or
\* hotels agent and leave flights, hotels and the TripRequest unchanged.
C12_EditTouchesOnlyItsSection ==
    /\ EditType = "flights"
       => /\ launched \subseteq {"FLIGHTS"}
          /\ plan.hotels = plan0.hotels /\ plan.days = plan0.days
          /\ returned => (launched = {"FLIGHTS"} /\ ret.hotels = plan0.hotels /\ ret.days = plan0.days)
    /\ EditType = "hotels"
       => /\ launched \subseteq {"HOTELS"}
          /\ plan.flights = plan0.flights /\ plan.days = plan0.days
          /\ returned => (launched = {"HOTELS"} /\ ret.flights = plan0.flights /\ ret.days = plan0.days)
    /\ EditType \in ItineraryEditTypes
       => /\ launched \cap {"FLIGHTS", "HOTELS"} = {}
          /\ plan.flights = plan0.flights /\ plan.hotels = plan0.hotels
          /\ plan.request = plan0.request
          /\ returned => (ret.flights = plan0.flights /\ ret.hotels = plan0.hotels
                          /\ ret.request = plan0.request)

\* a flights edit returned new flights for a plan that has hotels and days
C12_Witness ==
    /\ returned /\ EditType = "flights" /\ ~raised
    /\ ret.flights # plan0.flights
    /\ plan0.hotels # <<>> /\ plan0.days # <<>>

NeedsClarification ==
    \/ /\ EditType = "itinerary_activity"
       /\ \/ edit_intent.day_number = 0 \/ edit_intent.activity_name = ""
          \/ ~DayInRange(edit_intent.day_number, plan0.days)
    \/ /\ EditType = "itinerary_swap"
       /\ \/ edit_intent.source_day = 0 \/ edit_intent.target_day = 0
          \/ ~DayInRange(edit_intent.source_day, plan0.days)
          \/ ~DayInRange(edit_intent.target_day, plan0.days)
          \/ edit_intent.activity_name = ""

\* C14: such an edit streams a clarification text and a final summary segment,
\* invokes no agent or search, returns the existing Plan with every field
\* unchanged, and does not call the persistence save.
C14_ClarificationLeavesPlan ==
    NeedsClarification
    => /\ launched = {} /\ plan = plan0 /\ saveCount = 0 /\ ~raised
       /\ returned
          => /\ ret = plan0
             /\ Len(out) >= 2
             /\ out[Len(out) - 1].type = "text"
             /\ out[Len(out)].type = "summary" /\ out[Len(out)].final
             /\ out[Len(out)].tag = out[Len(out) - 1].tag
             /\ out[Len(out)].tag \in {"clarify_activity", "clarify_day_number", "clarify_swap_days",
                                       "clarify_swap_range", "clarify_swap_activity"}

\* an activity edit naming a valid day of a three-day plan but no activity
C14_Witness ==
    /\ returned /\ EditType = "itinerary_activity"
    /\ Len(plan0.days) = 3 /\ edit_intent.day_number = 2 /\ edit_intent.activity_name = ""
    /\ out[Len(out)].tag = "clarify_activity"

\* C15: a swap with valid days and a name exchanges exactly one pair of blocks,
\* a source block holding the named activity and the target block with the same
\* time label, also when the name matches several source blocks; when no such
\* pair exists nothing changes.
C15_SwapExchangesOnePair ==
    LET s == edit_intent.source_day
        t == edit_intent.target_day
        src == plan0.days[s].blocks
        pairs == {i \in 1..Len(src) : /\ NameMatches(edit_intent.activity_name, src[i])
                                      /\ FirstWithTime(plan0.days[t].blocks, src[i].time) # 0}
    IN (/\ returned /\ EditType = "itinerary_swap" /\ edit_intent.activity_name # ""
        /\ DayInRange(s, plan0.days) /\ DayInRange(t, plan0.days))
       => IF pairs = {} THEN ret.days = plan0.days
          ELSE \E i \in pairs :
                 ret.days = ExchangeBlocks(plan0.days, s, i, t,
                                           FirstWithTime(plan0.days[t].blocks, src[i].time))

\* C16: an itinerary_day edit with day_number in 1..N replaces only the Day at
\* that position with the regenerated Day: N days remain and every other Day is
\* unchanged and in place; with day_number absent, 0 or greater than N the
\* edit raises nothing and leaves all days unchanged.
C16_DayEditReplacesInPlace ==
    LET k == edit_intent.day_number
    IN EditType = "itinerary_day"
       => IF DayInRange(k, plan0.days)
          THEN /\ Len(plan.days) = Len(plan0.days)
               /\ \A j \in 1..Len(plan0.days) : j # k => plan.days[j] = plan0.days[j]
               /\ (returned /\ ~raised)
                  => /\ ret.days = plan.days
                     /\ ret.days[k] = RegeneratedDay(plan0.days[k].date)
          ELSE /\ plan.days = plan0.days /\ ~raised
               /\ returned => ret.days = plan0.days

\* the second day of a three-day itinerary was regenerated
C16_Witness ==
    /\ returned /\ ~raised /\ EditType = "itinerary_day"
    /\ Len(plan0.days) = 3 /\ edit_intent.day_number = 2
    /\ ret.days[2] # plan0.days[2]
    /\ ret.days[1] = plan0.days[1] /\ ret.days[3] = plan0.days[3]

-----------------------------------------------------------------------------
(* Properties of the intent classification (SpecRoute) *)

PastEditDetection == pc \in {"edit_fallback", "edit_path", "understand", "fresh_path"}
HasEditKeyword == Has(edit_keywords, rt.words)

\* C17: a message reaches the edit path only if a prior Plan exists and the
\* message holds an edit keyword; without a prior Plan, or without an edit
\* keyword, no edit intent is produced, neither by the external classifier nor
\* by the removal fallback, and the message goes to the fresh-request path.
C17_EditPathNeedsPlanAndKeyword ==
    /\ pc = "edit_path" => (rt.prior /\ rt.existing /\ HasEditKeyword)
    /\ (PastEditDetection /\ (~rt.prior \/ ~HasEditKeyword))
       => /\ "edit" \notin rt.asked /\ ~rt.fallback
          /\ edit_intent = NoEditIntent
          /\ pc # "edit_path"

\* a message naming a date but holding no edit keyword, sent to a thread with
\* a prior plan, went to the fresh-request path
C17_Witness ==
    /\ pc = "fresh_path" /\ rt.prior /\ rt.existing
    /\ ~HasEditKeyword /\ Has(date_keywords, rt.words) /\ msg.nl # <<>>
    /\ edit_intent = NoEditIntent

\* the answers that are an unambiguous yes
UnambiguousYes == {<<"y", "e", "s">>, <<"Y", "e", "s", ".">>}
ClassifierSaidNoYes ==
    /\ ~Has(strong_travel_keywords, rt.words)
    /\ "travel" \in rt.asked
    /\ ~(rt.travel_resp.ok /\ rt.travel_resp.text \in UnambiguousYes)

FullPlanPhrase == Has(full_plan_keywords, rt.words)
OnlyOrJust == Has({"only", "just"}, rt.words)
Mentioned ==
    (IF Has(flight_keywords, rt.words) THEN {"FLIGHTS"} ELSE {})
    \cup (IF Has(hotel_keywords, rt.words) THEN {"HOTELS"} ELSE {})
    \cup (IF Has(itinerary_keywords, rt.words) THEN {"ITINERARY"} ELSE {})
ClassifierConsulted == "components" \in rt.asked

\* C19: component detection follows the six rules, first match wins: a
\* full-plan phrase gives all three even with 'only'; 'only' with one keyword
\* set gives that component; 'only' with several sets consults the external
\* classifier; exactly two sets give those two; exactly one gives that one;
\* otherwise all three.  The result is a non-empty list in the order FLIGHTS,
\* HOTELS, ITINERARY.
C19_ComponentPrecedence ==
    pc = "fresh_path"
    => LET comps == rt.components
           n == Cardinality(Mentioned)
       IN /\ comps # <<>>
          /\ comps = FilterOrder(AgentOrder, SeqToSet(comps))
          /\ requested = SeqToSet(comps)
          /\ IF FullPlanPhrase THEN comps = AgentOrder /\ ~ClassifierConsulted
             ELSE IF OnlyOrJust /\ n = 1
             THEN comps = FilterOrder(AgentOrder, Mentioned) /\ ~ClassifierConsulted
             ELSE IF OnlyOrJust /\ n >= 2 THEN ClassifierConsulted
             ELSE /\ ~ClassifierConsulted
                  /\ comps = IF n \in {1, 2} THEN FilterOrder(AgentOrder, Mentioned) ELSE AgentOrder

\* a message with a full-plan phrase, 'only' and a flight keyword got all three
C19_Witness ==
    /\ pc = "fresh_path"
    /\ FullPlanPhrase /\ OnlyOrJust /\ Mentioned = {"FLIGHTS"}
    /\ rt.components = <<"FLIGHTS", "HOTELS", "ITINERARY">>

\* C20: when 'only'/'just' comes with more than one keyword set and the
\* component classifier is unavailable, raises, returns malformed text or
\* answers ALL, the selector returns all three components.
C20_ClassifierFailureGivesAll ==
    (/\ pc = "fresh_path" /\ ~FullPlanPhrase /\ OnlyOrJust /\ Cardinality(Mentioned) >= 2
     /\ (~rt.comp_resp.ok \/ rt.comp_resp.marks = {}))
    => rt.components = <<"FLIGHTS", "HOTELS", "ITINERARY">>

-----------------------------------------------------------------------------
(* Properties of the missing-field check *)

\* the fields a requested component asks for, given what the request holds
RequiredBy(a, it) ==
    LET dest == it.destination # ""
        dep  == it.depart_date # 0
    IN IF a = "FLIGHTS"
       THEN (IF dest THEN {} ELSE {"destination"})
            \cup (IF dep THEN {} ELSE {"depart_date"})
            \cup (IF it.origin # "" THEN {} ELSE {"origin"})
       ELSE IF a = "HOTELS"
       THEN (IF dest THEN {} ELSE {"destination"})
            \cup (IF dest /\ ~dep THEN {"depart_date"} ELSE {})
       ELSE (IF dest THEN {} ELSE {"destination"})
            \cup (IF dest /\ ~dep THEN {"depart_date"} ELSE {})
            \cup (IF dest /\ dep /\ ~HasReturnDate(it) /\ it.trip_length = 0
                  THEN {"trip_length"} ELSE {})
NoDuplicates(s) == \A i, j \in 1..Len(s) : s[i] = s[j] => i = j

\* C21: the missing-field list of a run names exactly the union of the fields
\* its requested components require (FLIGHTS: destination, depart_date, origin;
\* HOTELS: destination, and depart_date once destination is known; ITINERARY:
\* destination, depart_date once destination is known, trip_length when both
\* are known but neither return_date nor a trip length is), names no field
\* twice and no field of a component that was not requested.
C21_MissingIsUnionOfRequirements ==
    LET missing == CheckMissingInformation(intent, requested)
    IN /\ SeqToSet(missing) = UNION {RequiredBy(a, intent) : a \in requested}
       /\ NoDuplicates(missing)
       /\ \A i \in 1..Len(missing) : \E a \in requested : missing[i] \in RequiredBy(a, intent)

\* a run asked to clarify where two requested components require the same
\* field and a third field is required by one of them only
C21_Witness ==
    /\ pc = "clarify"
    /\ requested = Agents
    /\ CheckMissingInformation(intent, requested) = <<"destination", "depart_date", "origin">>

-----------------------------------------------------------------------------
(* _understand_intent after the component detection: the structured          *)
(* extraction with _validate_and_normalize_intent (lines 1327-1400) and the  *)
(* regex fallback _extract_intent_fallback (lines 1492-1602).  A date string *)
(* is its date as an integer; BadDate is a string strptime rejects and       *)
(* NullString the string "null".                                             *)
BadDate == 0 - 2
NullString == 0 - 3
ValueError == 0 - 9

\* date_obj.replace(year=y): raises for 29 February in a common year
ReplaceYear(dt, y) ==
    IF ValidDate(y, MonthOf(dt), DayOf(dt)) THEN MkDate(y, MonthOf(dt), DayOf(dt)) ELSE ValueError

\* a datetime at midnight of dt compared with datetime.now()
BeforeNow(dt, n) == dt < n.date \/ (dt = n.date /\ ~n.midnight)
AfterNow(dt, n) == dt > n.date

\* the depart_date rule; a ValueError empties the date in the structured
\* path (lines 1437-1439) and leaves it as it was in the fallback (1560-1561)
NormalizeDepart(dep, n, structured) ==
    LET cy == YearOf(n.date)
        failed == IF structured THEN 0 ELSE dep
    IN IF dep \in {0, NoDate} THEN 0
       ELSE IF ~IsDate(dep) THEN failed
       ELSE LET cur == ReplaceYear(dep, cy)
                nxt == ReplaceYear(dep, cy + 1)
            IN IF cur = ValueError THEN failed
               ELSE IF BeforeNow(cur, n) THEN (IF nxt = ValueError THEN failed ELSE nxt)
               ELSE cur

\* lines 1459-1468 / 1572-1581: a return before the departure is moved to the
\* departure's year, or the year after; a ValueError of replace is passed over
AfterDepart(r, depart) ==
    LET f1 == ReplaceYear(r, YearOf(depart))
        f2 == ReplaceYear(r, YearOf(depart) + 1)
    IN IF depart # 0 /\ IsDate(depart) /\ r < depart
       THEN (IF f1 = ValueError THEN r
             ELSE IF f1 <= depart THEN (IF f2 = ValueError THEN r ELSE f2)
             ELSE f1)
       ELSE r

\* the return_date rule; a ValueError gives None in the structured path
\* (lines 1476-1478) and leaves the date as it was in the fallback (1590-1591)
NormalizeReturn(r, depart, n, structured) ==
    IF r \in {NoDate, 0, NullString} THEN NoDate
    ELSE IF ~IsDate(r) THEN (IF structured THEN NoDate ELSE r)
    ELSE LET r1 == AfterDepart(r, depart)
             f3 == ReplaceYear(r1, YearOf(n.date) + 1)
         IN IF BeforeNow(r1, n)
            THEN (IF f3 = ValueError THEN (IF structured THEN NoDate ELSE r1)
                  ELSE IF AfterNow(f3, n) THEN f3 ELSE r1)
            ELSE r1

\* lines 1373-1386 and 1398: the itinerary-only origin/destination fix, the
\* normalisation, and the TripRequest built from it
ValidateAndNormalizeIntent(d, comps, n) ==
    LET swap == comps = {"ITINERARY"} /\ d.destination = "" /\ d.origin # ""
        dep == NormalizeDepart(d.depart_date, n, TRUE)
    IN [origin |-> IF swap THEN "" ELSE d.origin,
        destination |-> IF swap THEN d.origin ELSE d.destination,
        depart_date |-> dep,
        return_date |-> NormalizeReturn(d.return_date, dep, n, TRUE),
        trip_length |-> d.trip_length]

\* _extract_intent_fallback: o and d are what the city patterns found
ExtractIntentFallback(o, d, m, n) ==
    LET dates == ExtractDates(m, n)
        dep == NormalizeDepart(IF dates # <<>> THEN dates[1] ELSE 0, n, FALSE)
        ret0 == IF Len(dates) > 1 THEN dates[2] ELSE NoDate
    IN [origin |-> o, destination |-> d, depart_date |-> dep,
        return_date |-> NormalizeReturn(ret0, dep, n, FALSE), trip_length |-> 0]

\* the structured extraction returned data from which a TripRequest is built
StructuredExtraction ==
    /\ pc = "extract_intent"
    /\ rt.intent_data.ok
    /\ intent' = ValidateAndNormalizeIntent(rt.intent_data, requested, now)
    /\ pc' = "understood"
    /\ UNCHANGED <<rt, serverVars, out, requested, agents_needed, agentSt, results, itinDays,
                   shimmer_active, sh, editVars, toolVars, ret, returned, saved, saveCount, launched, threw>>

\* the call, the JSON or the TripRequest failed: regex extraction
FallbackExtraction ==
    /\ pc = "extract_intent"
    /\ ~rt.intent_data.ok
    /\ \E o \in Origins, d \in Destinations : intent' = ExtractIntentFallback(o, d, msg, now)
    /\ pc' = "understood"
    /\ UNCHANGED <<rt, serverVars, out, requested, agents_needed, agentSt, results, itinDays,
                   shimmer_active, sh, editVars, toolVars, ret, returned, saved, saveCount, launched, threw>>

Today == MkDate(2027, 11, 4)
IntentNows == {[date |-> Today, midnight |-> FALSE], [date |-> Today, midnight |-> TRUE]}
DateStrings == {Today, Today - 1, 20241212, 20240105, 20271220, 20280229, 20280301, 20290110,
                BadDate}
StructuredAnswers ==
    [ok : {TRUE}, origin : Origins, destination : Destinations,
     depart_date : DateStrings \cup {0},
     return_date : DateStrings \cup {NoDate, NullString}, trip_length : {0, 3}]
IntentMsgs ==
    {[iso |-> <<a>>, nl |-> <<>>, ret_day |-> 0] : a \in DateStrings}
    \cup {[iso |-> <<a, b>>, nl |-> <<>>, ret_day |-> 0] : a, b \in DateStrings}
    \cup {[iso |-> <<>>, nl |-> <<[form |-> "dm", d |-> dd, m |-> 11]>>, ret_day |-> r] :
            dd \in {3, 4, 5}, r \in {0, 2, 20}}
    \cup {[iso |-> <<>>, nl |-> <<[form |-> f, d |-> 10, m |-> 12], [form |-> g, d |-> dd, m |-> 12]>>,
            ret_day |-> 0] : f \in {"dm", "md"}, g \in {"dm", "md"}, dd \in {10, 20}}
    \cup {[iso |-> <<>>, nl |-> <<[form |-> "dm", d |-> 20, m |-> 12]>>, ret_day |-> r] : r \in {5, 25}}
    \cup {[iso |-> <<>>, nl |-> <<[form |-> "md", d |-> 31, m |-> 1]>>, ret_day |-> r] : r \in {30, 31}}

InitIntent ==
    /\ InitCommon
    /\ pc = "extract_intent"
    /\ requested \in {{"ITINERARY"}, Agents}
    /\ \/ \E d \in StructuredAnswers : rt = [NoRoute EXCEPT !.intent_data = d] /\ msg = NoDatesMsg
       \/ rt = NoRoute /\ msg \in IntentMsgs
    /\ intent = EmptyRequest
    /\ plan = EmptyPlan /\ plan0 = EmptyPlan
    /\ edit_intent = NoEditIntent
    /\ now \in IntentNows

NextIntent ==
    \/ StructuredExtraction
    \/ FallbackExtraction

SpecIntent == InitIntent /\ [][NextIntent]_vars

-----------------------------------------------------------------------------
(* Properties of the date normalisation *)

Understood == pc = "understood"
ExtractedDates == ExtractDates(msg, now)
\* the date strings handed to the normalisation
DepartInput ==
    IF rt.intent_data.ok THEN rt.intent_data.depart_date
    ELSE IF ExtractedDates # <<>> THEN ExtractedDates[1] ELSE 0
ReturnInput ==
    IF rt.intent_data.ok THEN rt.intent_data.return_date
    ELSE IF Len(ExtractedDates) > 1 THEN ExtractedDates[2] ELSE NoDate
MonthDay(dt) == dt % 10000

\* C22: the normalised depart_date of a valid day/month has the current year
\* when that day/month of the current year is today or later, and the next
\* year when it is strictly before today.
C22_DepartYearRule ==
    LET cy == YearOf(now.date)
        m == MonthOf(DepartInput)
        d == DayOf(DepartInput)
    IN (Understood /\ IsDate(DepartInput) /\ ValidDate(cy, m, d) /\ ValidDate(cy + 1, m, d))
       => intent.depart_date =
             MkDate(IF MonthDay(DepartInput) < MonthDay(now.date) THEN cy + 1 ELSE cy, m, d)

\* C23: a depart_date or return_date that is already a valid YYYY-MM-DD
\* string comes out of the normalisation as the same string.
C23_CanonicalUnchanged ==
    Understood =>
      /\ IsDate(DepartInput) => intent.depart_date = DepartInput
      /\ IsDate(ReturnInput) => intent.return_date = ReturnInput

\* C24: after normalisation a return_date never precedes the depart_date it
\* comes with, and a return date that was in the past is not before today.
C24_ReturnNotBeforeDepart ==
    Understood =>
      /\ (IsDate(intent.depart_date) /\ IsDate(intent.return_date))
           => intent.return_date >= intent.depart_date
      /\ (IsDate(ReturnInput) /\ ReturnInput < now.date /\ IsDate(intent.return_date))
           => intent.return_date >= now.date

-----------------------------------------------------------------------------
(* Properties of the plan assembly and the summary *)

PlanAssembled == pc = "done" /\ returned /\ saved.hasPlan
ErrorsOf(p, a) == {i \in 1..Len(p.errors) : p.errors[i].agent = a}
CarriesError(a) == results[a].present /\ results[a].has_error

PhraseAgent(k) ==
    IF k \in {"flights_error", "flights_reasoning", "found_flights"} THEN "FLIGHTS"
    ELSE IF k \in {"hotels_error", "hotels_reasoning", "found_hotels"} THEN "HOTELS"
    ELSE IF k \in {"itinerary_error", "created_itinerary", "no_itinerary"} THEN "ITINERARY"
    ELSE "none"
FallbackNote == "Summary generated without AI enhancement."
SummarySegments == {i \in 1..Len(out) : out[i].type = "summary"}

\* C26: the narrative call of the summary raises and the run goes on with the
\* deterministic fallback: a non-empty summary made of one status phrase for
\* each requested component and of none for any other, streamed and stored
\* in the plan.
C26_SummaryFallback ==
    PlanAssembled =>
      /\ ret.notes = FallbackNote
      /\ ret.summary.scope # ""
      /\ ret.summary.parts # <<>>
      /\ {PhraseAgent(ret.summary.parts[i].k) : i \in 1..Len(ret.summary.parts)} = requested
      /\ Len(ret.summary.parts) = Cardinality(requested)
      /\ \E i \in SummarySegments : out[i].data = <<ret.summary>>

\* a summary of a run that was asked for hotels only and whose hotel search
\* failed
C26_Witness ==
    /\ PlanAssembled
    /\ requested = {"HOTELS"}
    /\ CarriesError("HOTELS")
    /\ Len(ret.summary.parts) = 1

-----------------------------------------------------------------------------
(* Properties of the top-level failure handler and of the terminal segment *)

ErrorSegments == {i \in 1..Len(out) : out[i].type = "error"}
TopLevelFailed == returned /\ ErrorSegments # {}

\* C27: a run whose exception reached the top-level handler has asked the
\* progress reporter to stop (or never started it) and no progress message
\* follows the error, has streamed exactly one error segment, returns a plan
\* with an empty request, no flights, hotels or days and the single
\* ORCHESTRATOR ErrorItem, and has persisted no plan.
C27_TopLevelFailure ==
    TopLevelFailed =>
      /\ ~shimmer_active
      /\ sh.cancel \/ sh.pc \in {"none", "done", "cancelled"}
      /\ Cardinality(ErrorSegments) = 1
      /\ out[Len(out)].type = "error"
      /\ ret.request = EmptyRequest
      /\ ret.flights = <<>> /\ ret.hotels = <<>> /\ ret.days = <<>>
      /\ Len(ret.errors) = 1 /\ ret.errors[1].agent = "ORCHESTRATOR"
      /\ ~saved.hasPlan /\ saveCount = 0

\* a run that failed after flights were streamed and the progress reporter
\* had shown a step
C27_Witness ==
    /\ TopLevelFailed
    /\ sh.step >= 1
    /\ \E i \in 1..Len(out) : out[i].type = "flights"
    /\ Len(ret.errors) = 1

FinalSegments == {i \in 1..Len(out) : out[i].final}
FinalSummaries == {i \in 1..Len(out) : out[i].type = "summary" /\ out[i].final}

\* C28: a run that has returned has streamed a terminal segment, exactly one
\* summary segment with final=true or an error segment, and never more than
\* one final=true segment.
C28_TerminalSegment ==
    returned =>
      /\ Cardinality(FinalSummaries) = 1 \/ ErrorSegments # {}
      /\ Cardinality(FinalSegments) <= 1

-----------------------------------------------------------------------------
(* The streaming API: start_stream, _process_stream_background,              *)
(* _cleanup_session and consume_stream.  The run of the orchestrator inside  *)
(* a background task is reduced to what the API and the persistence          *)
(* collaborator see of it: the load of the thread's latest plan, the         *)
(* segments put on the task's queue, and the save.  A plan is the sequence   *)
(* of the runs whose changes it holds.                                       *)

Created == {i \in SessionIds : bg[i].pc # "none"}

\* start_stream, lines 139-164
StartStream(t) ==
    /\ Created # SessionIds
    /\ LET id == CHOOSE i \in SessionIds \ Created : \A j \in SessionIds \ Created : i <= j
       IN /\ stream_sessions' = stream_sessions \cup {id}
          /\ queues' = [queues EXCEPT ![id] = <<>>]
          /\ bg' = [bg EXCEPT ![id] = [NoTask EXCEPT !.thread = t, !.pc = "created"]]
          /\ cleanup' = [cleanup EXCEPT ![id] = [pc |-> "sleeping", slept |-> 0]]
    /\ UNCHANGED <<store, delivered, consumers, runVars>>

\* the background task starts a run of the orchestrator on a travel message
\* (gemini_with_rotation.py lines 170, 180), which loads the thread's latest
\* plan (factory.py lines 54-64)
BgLoadPlan(id) ==
    /\ bg[id].pc = "created"
    /\ bg' = [bg EXCEPT ![id].pc = "loaded", ![id].base = store[bg[id].thread]]
    /\ UNCHANGED <<stream_sessions, queues, cleanup, store, delivered, consumers, runVars>>

\* the run ends: with a plan built on the one it loaded, saved as the
\* thread's latest (factory.py lines 216-221, 1085-1090), or with an error
\* segment and no save; segment_callback (lines 172-177) puts the segment
\* on the queue the task was given, then "__DONE__" follows (lines 180-195)
BgFinish(id) ==
    /\ bg[id].pc = "loaded"
    /\ \E outcome \in {"plan", "error"} :
         /\ bg' = [bg EXCEPT ![id].pc = "done", ![id].outcome = outcome]
         /\ store' = IF outcome = "plan"
                     THEN [store EXCEPT ![bg[id].thread] = Append(bg[id].base, id)]
                     ELSE store
         /\ queues' = [queues EXCEPT ![id] =
                          @ \o <<IF outcome = "plan" THEN "summary" ELSE "error", "__DONE__">>]
    /\ UNCHANGED <<stream_sessions, cleanup, delivered, consumers, runVars>>

\* time passes for every sleeping cleanup task
Tick ==
    /\ \E i \in SessionIds : cleanup[i].pc = "sleeping" /\ cleanup[i].slept < SESSION_TTL
    /\ cleanup' = [i \in SessionIds |->
                     IF cleanup[i].pc = "sleeping" /\ cleanup[i].slept < SESSION_TTL
                     THEN [cleanup[i] EXCEPT !.slept = @ + 1] ELSE cleanup[i]]
    /\ UNCHANGED <<stream_sessions, queues, bg, store, delivered, consumers, runVars>>

\* _cleanup_session, lines 198-203, after its sleep
CleanupSession(id) ==
    /\ cleanup[id].pc = "sleeping"
    /\ cleanup[id].slept >= SESSION_TTL
    /\ stream_sessions' = stream_sessions \ {id}
    /\ cleanup' = [cleanup EXCEPT ![id].pc = "done"]
    /\ UNCHANGED <<queues, bg, store, delivered, consumers, runVars>>

\* consume_stream, lines 207-223, called by a client that is not already
\* reading the id: 404 for an id the table does not hold, else an event
\* generator on the id's queue
ConsumeStreamMut(id) ==
    /\ consumers[id] # "open"
    /\ consumers' = [consumers EXCEPT ![id] = "open"]
    /\ UNCHANGED <<stream_sessions, queues, bg, cleanup, store, delivered, runVars>>
ConsumeStream(id) ==
    /\ consumers[id] # "open"
    /\ consumers' = [consumers EXCEPT ![id] = IF id \in stream_sessions THEN "open" ELSE "not_found"]
    /\ UNCHANGED <<stream_sessions, queues, bg, cleanup, store, delivered, runVars>>

\* event_generator, lines 225-288: one queue.get(); "__DONE__" becomes the
\* DONE event and ends the generator
ConsumeGet(id) ==
    /\ consumers[id] = "open"
    /\ queues[id] # <<>>
    /\ queues' = [queues EXCEPT ![id] = Tail(@)]
    /\ delivered' = [delivered EXCEPT ![id] =
                       Append(@, IF Head(queues[id]) = "__DONE__" THEN "DONE" ELSE Head(queues[id]))]
    /\ consumers' = IF Head(queues[id]) = "__DONE__"
                    THEN [consumers EXCEPT ![id] = "none"] ELSE consumers
    /\ UNCHANGED <<stream_sessions, bg, cleanup, store, runVars>>

InitServer ==
    /\ InitCommon
    /\ pc = "serving"
    /\ rt = NoRoute
    /\ intent = EmptyRequest
    /\ requested = {}
    /\ plan = EmptyPlan /\ plan0 = EmptyPlan
    /\ edit_intent = NoEditIntent
    /\ msg = NoDatesMsg
    /\ now = [date |-> Today, midnight |-> FALSE]

NextServer ==
    \/ \E t \in Threads : StartStream(t)
    \/ \E id \in SessionIds : BgLoadPlan(id)
    \/ \E id \in SessionIds : BgFinish(id)
    \/ Tick
    \/ \E id \in SessionIds : CleanupSession(id)
    \/ \E id \in SessionIds : ConsumeStream(id)
    \/ \E id \in SessionIds : ConsumeGet(id)

SpecServer == InitServer /\ [][NextServer]_vars

-----------------------------------------------------------------------------
(* C29: for any conversation thread, orchestration runs do not overlap:      *)
(* while a run is between loading the thread's latest plan and saving, no    *)
(* other run of the same thread has loaded the plan, and the plan a run      *)
(* saved is never replaced by a plan built on an older one, so every run     *)
(* that saved is part of its thread's latest plan.                           *)
InFlight(i) == bg[i].pc = "loaded"

SeqRange(s) == {s[k] : k \in 1..Len(s)}

C29_RunsDoNotOverlap ==
    /\ \A i, j \in SessionIds :
         (i # j /\ bg[i].thread = bg[j].thread /\ InFlight(i)) => ~InFlight(j)
    /\ \A i \in SessionIds :
         bg[i].outcome = "plan" => i \in SeqRange(store[bg[i].thread])

-----------------------------------------------------------------------------
(* C30: streaming sessions are isolated.  Every step touches the table       *)
(* entry, the queue and the delivered events of at most one session; a       *)
(* session enters the table under an id never used before, with an empty     *)
(* queue; a queue grows only by the segments of its own run; a session       *)
(* leaves the table only in its own cleanup task, one SESSION_TTL after its  *)
(* creation; a queue is drained only by a consumer of its own id, into that  *)
(* id's events; consuming an id the table does not hold answers not found,   *)
(* and a generator is opened only for an id the table holds.                 *)
Touched(id) ==
    \/ (id \in stream_sessions) # (id \in stream_sessions')
    \/ queues'[id] # queues[id]
    \/ delivered'[id] # delivered[id]

SessionStepIsolated ==
    /\ Cardinality({id \in SessionIds : Touched(id)}) <= 1
    /\ \A id \in SessionIds :
         /\ (id \in stream_sessions' /\ id \notin stream_sessions) =>
                /\ bg[id].pc = "none" /\ cleanup[id].pc = "none"
                /\ queues'[id] = <<>>
                /\ cleanup'[id] = [pc |-> "sleeping", slept |-> 0]
         /\ Len(queues'[id]) > Len(queues[id]) =>
                /\ InFlight(id) /\ bg'[id].pc = "done"
                /\ \E seg \in {"summary", "error"} : queues'[id] = queues[id] \o <<seg, "__DONE__">>
         /\ (id \in stream_sessions /\ id \notin stream_sessions') =>
                /\ cleanup[id] = [pc |-> "sleeping", slept |-> SESSION_TTL]
                /\ cleanup'[id].pc = "done"
         /\ Len(queues'[id]) < Len(queues[id]) =>
                /\ consumers[id] = "open"
                /\ queues'[id] = Tail(queues[id])
                /\ Len(delivered'[id]) = Len(delivered[id]) + 1
         /\ (consumers'[id] = "not_found" /\ consumers[id] # "not_found") => id \notin stream_sessions
         /\ (consumers'[id] = "open" /\ consumers[id] # "open") => id \in stream_sessions

C30_SessionsIsolated == [][SessionStepIsolated]_vars

\* the first session has served its run, was removed by its cleanup task and
\* a later consumer of its id was answered not found, while the second is
\* still in the table with its run's segments waiting
C30_Witness ==
    /\ 1 \notin stream_sessions /\ cleanup[1].pc = "done"
    /\ delivered[1] = <<"summary", "DONE">>
    /\ consumers[1] = "not_found"
    /\ 2 \in stream_sessions /\ cleanup[2].slept < SESSION_TTL
    /\ queues[2] = <<"summary", "__DONE__">>
    /\ delivered[2] = <<>>

-----------------------------------------------------------------------------
(* C31: each selected agent emits its data segment when it completes, while  *)
(* the supervisor is still awaiting the group: the flight and the hotel      *)
(* agent have emitted exactly one segment of their type, carrying their      *)
(* result, as soon as they have completed and none before; the day list of   *)
(* the itinerary agent's segments never shrinks from one segment to the      *)
(* next and its last segment holds all days of its result.                   *)
DataSegments(a) == SelectSeq(out, LAMBDA s : s.src = a /\ s.tag = "data")
Completed(a) == agentSt[a] = "done" /\ ~results[a].wrapper
IsPrefix(s, t) == Len(s) <= Len(t) /\ SubSeq(t, 1, Len(s)) = s
SegmentType(a) == IF a = "FLIGHTS" THEN "flights" ELSE IF a = "HOTELS" THEN "hotels" ELSE "itinerary"

-----------------------------------------------------------------------------
(* C32: the regex fallback returns the dates of a message in their order of  *)
(* appearance in the text, whatever mix of "day month" and "month day"       *)
(* forms is used, without duplicates; the first returned date becomes        *)
(* depart_date and the second becomes return_date.                           *)
RECURSIVE Dedup(_, _)
Dedup(s, acc) ==
    IF s = <<>> THEN acc
    ELSE Dedup(Tail(s), IF Head(s) \in SeqToSet(acc) THEN acc ELSE Append(acc, Head(s)))

\* the dates of the message's mentions, in text order
RECURSIVE MentionDates(_, _)
MentionDates(mentions, n) ==
    IF mentions = <<>> THEN <<>>
    ELSE MentionDate(Head(mentions), n) \o MentionDates(Tail(mentions), n)

AppearanceDates(m, n) == Dedup(IF m.iso # <<>> THEN m.iso ELSE MentionDates(m.nl, n), <<>>)

FallbackRan == Understood /\ ~rt.intent_data.ok

\* date a became field value b: normalisation may only have changed the year
Became(a, b) == IF IsDate(a) THEN IsDate(b) /\ MonthDay(b) = MonthDay(a) ELSE b = a

C32_DatesInTextOrder ==
    (FallbackRan /\ msg.ret_day = 0)
    => /\ ExtractedDates = AppearanceDates(msg, now)
       /\ Became(IF ExtractedDates # <<>> THEN ExtractedDates[1] ELSE 0, intent.depart_date)
       /\ Became(IF Len(ExtractedDates) > 1 THEN ExtractedDates[2] ELSE NoDate, intent.return_date)

-----------------------------------------------------------------------------
(* C33: the Progress Reporter emits a bounded sequence: at most two          *)
(* messages per requested agent category, in the order flights, hotels,      *)
(* itinerary, each message at most once, and one generic message when no     *)
(* agent is given; it emits nothing once shimmer_active is cleared, and      *)
(* after the cancellation that follows the task ends, so the await of the    *)
(* main flow returns.                                                        *)

\* the event loop runs every task that is ready
SpecFreshFair ==
    SpecFresh /\ WF_vars(ShimmerWake) /\ WF_vars(ShimmerCancelled) /\ WF_vars(AwaitShimmer)

ShimmerTags ==
    LET segs == SelectSeq(out, LAMBDA s : s.src = "shimmer")
    IN [i \in 1..Len(segs) |-> segs[i].tag]

StepCategory(tag) ==
    IF tag \in {"flights1", "flights2"} THEN "FLIGHTS"
    ELSE IF tag \in {"hotels1", "hotels2"} THEN "HOTELS"
    ELSE IF tag \in {"itinerary1", "itinerary2"} THEN "ITINERARY"
    ELSE "none"
CategoryRank(c) == IF c = "FLIGHTS" THEN 1 ELSE IF c = "HOTELS" THEN 2 ELSE 3

BoundedProgress ==
    LET tags == ShimmerTags
    IN /\ \A i, j \in 1..Len(tags) : i < j => tags[i] # tags[j]
       /\ \A i \in 1..Len(tags) : StepCategory(tags[i]) \in requested
       /\ \A c \in Agents : Cardinality({i \in 1..Len(tags) : StepCategory(tags[i]) = c}) <= 2
       /\ \A i, j \in 1..Len(tags) :
            i < j => CategoryRank(StepCategory(tags[i])) <= CategoryRank(StepCategory(tags[j]))
       /\ ShimmerSteps(<<>>) = <<"planning">>

SilentOnceCleared == ~shimmer_active => ShimmerTags' = ShimmerTags

C33_ProgressBoundedAndStops ==
    /\ []BoundedProgress
    /\ [][SilentOnceCleared]_vars
    /\ (pc = "await_shimmer") ~> (pc = "finalizing")

\* the reporter sent every message of two categories and was idle when the
\* main flow cancelled it, awaited it and went on
C33_Witness ==
    /\ pc = "finalizing"
    /\ sh.pc = "done"
    /\ ShimmerTags = <<"flights1", "flights2", "hotels1", "hotels2">>

-----------------------------------------------------------------------------
(* The removal fallback followed by the editor: a run on a thread with a     *)
(* prior plan whose edit classification gave no edit type (lines 66-121,     *)
(* then _handle_incremental_edit).                                           *)

\* lines 114-121: the edit intent and the existing plan go to the editor
EnterEditor ==
    /\ pc = "edit_path"
    /\ pc' = "edit_start"
    /\ UNCHANGED <<rt, serverVars, out, freshVars, editVars, toolVars, ret, returned, saved, saveCount,
                   launched, threw>>

\* a three-day trip over the end of the year: 2027-12-30 .. 2028-01-01
YearEndStart == MkDate(2027, 12, 30)
YearEndDates == <<YearEndStart, YearEndStart + 1, MkDate(2028, 1, 1)>>
YearEndPlan ==
    LET p == ExistingPlan(3, Agents)
    IN [p EXCEPT !.request.depart_date = YearEndStart,
                 !.request.return_date = YearEndDates[3],
                 !.days = [k \in 1..3 |-> [p.days[k] EXCEPT !.date = YearEndDates[k]]]]

RemovePlans == {ExistingPlan(n, Agents) : n \in 1..MaxPlanDays} \cup {YearEndPlan}
MonthWord(m) == IF m = 12 THEN "december" ELSE "january"

\* "<verb> <month> <day>" or "<verb> <day> <month>"
RemoveMessages ==
    {[words |-> {v, MonthWord(dm[2])},
      msg |-> [iso |-> <<>>, nl |-> <<[form |-> f, d |-> dm[1], m |-> dm[2]]>>, ret_day |-> 0]] :
        v \in {"remove", "block"}, f \in {"md", "dm"},
        dm \in {<<20, 12>>, <<21, 12>>, <<22, 12>>, <<25, 12>>, <<30, 12>>, <<31, 12>>, <<1, 1>>, <<32, 12>>}}

InitRemove ==
    /\ InitCommon
    /\ pc = "edit_fallback"
    /\ \E rm \in RemoveMessages :
         /\ msg = rm.msg
         /\ rt = [NoRoute EXCEPT !.words = rm.words, !.prior = TRUE, !.existing = TRUE,
                                 !.travel = "yes",
                                 !.travel_resp = [ok |-> TRUE, text |-> <<"y", "e", "s">>],
                                 !.asked = {"travel", "edit"}, !.loaded = TRUE, !.detected = TRUE]
    /\ plan \in RemovePlans
    /\ plan0 = plan
    /\ intent = EmptyRequest
    /\ requested = {}
    /\ edit_intent = NoEditIntent
    /\ now \in Nows

NextRemove ==
    \/ EditFallback
    \/ EnterEditor
    \/ EditStart
    \/ RemoveDay
    \/ EditSummary

SpecRemove == InitRemove /\ [][NextRemove]_vars

-----------------------------------------------------------------------------
(* C34: with a prior plan, no edit type from the classifier, a removal verb  *)
(* and a month name in the message and at least one date extracted, the      *)
(* fallback synthesizes an itinerary_remove intent whose target_date is the  *)
(* first extracted date with its year replaced by the year of the plan's     *)
(* depart_date; and a message that names the day and month of an existing    *)
(* itinerary day leads to a plan without that day, the other days unchanged  *)
(* and in their order.                                                       *)
FallbackApplies ==
    /\ rt.existing /\ rt.detected
    /\ Has(removal_keywords, rt.words) /\ Has(date_keywords, rt.words)
    /\ ExtractedDates # <<>>

WithYear(dt, y) == MkDate(y, MonthOf(dt), DayOf(dt))
NamedDays == {i \in 1..Len(plan0.days) :
                \E k \in 1..Len(msg.nl) :
                    MonthDay(plan0.days[i].date) = msg.nl[k].m * 100 + msg.nl[k].d}

C34_FallbackRemovesNamedDay ==
    /\ (pc \in {"edit_path", "edit_start", "remove"} /\ rt.fallback /\ FallbackApplies)
       => /\ edit_intent.edit_type = "itinerary_remove"
          /\ edit_intent.target_date = WithYear(ExtractedDates[1], YearOf(plan0.request.depart_date))
    /\ (pc = "done" /\ returned /\ rt.fallback /\ FallbackApplies)
       => \A i \in NamedDays : ret.days = WithoutIndex(plan0.days, i)

-----------------------------------------------------------------------------
(* C36: when exactly one date with a month is found and the message has a    *)
(* "return by/on N" phrase, the second date takes day N in the month of the  *)
(* first date, or in the following month (January of the next year after     *)
(* December) when N is less than the first date's day; and every date the    *)
(* regex fallback returns, this one included, is a valid calendar date.      *)
ExpectedReturnBy(first, N) ==
    IF N >= DayOf(first) THEN MkDate(YearOf(first), MonthOf(first), N)
    ELSE IF MonthOf(first) = 12 THEN MkDate(YearOf(first) + 1, 1, N)
    ELSE MkDate(YearOf(first), MonthOf(first) + 1, N)

C36_ReturnByDayIsValidDate ==
    FallbackRan
    => /\ (msg.iso = <<>> /\ Len(AppearanceDates(msg, now)) = 1 /\ msg.ret_day # 0
           /\ msg.ret_day # DayOf(AppearanceDates(msg, now)[1]))
          => ExtractedDates = AppearanceDates(msg, now)
                              \o <<ExpectedReturnBy(AppearanceDates(msg, now)[1], msg.ret_day)>>
       /\ \A i \in 1..Len(ExtractedDates) : IsDate(ExtractedDates[i])


-----------------------------------------------------------------------------
(* Day regeneration: the used-name sets handed to the day planner
   (_handle_incremental_edit, lines 734-825 and 829-940). *)

\* the blocks of plans whose activity names carry capitals and outer white
\* space, repeat across days, and occur under both categories
RegenBlocks ==
    {<<>>,
     << <<[time |-> "morning", activities |-> <<[name |-> {"Park"}, category |-> "attraction"]>>]>> >>,
     << <<[time |-> "morning", activities |-> <<[name |-> {"museum"}, category |-> "attraction"]>>]>>,
        <<[time |-> "morning",
           activities |-> <<[name |-> {"Museum", SpaceAfter}, category |-> "restaurant"]>>]>> >>,
     << <<[time |-> "morning", activities |-> <<[name |-> {"Museum"}, category |-> "attraction"]>>],
          [time |-> "afternoon",
           activities |-> <<[name |-> {SpaceBefore, "cafe", SpaceAfter}, category |-> "restaurant"]>>]>>,
        <<[time |-> "morning", activities |-> <<[name |-> {"museum"}, category |-> "attraction"],
                                                [name |-> {"Cafe"}, category |-> "restaurant"]>>]>>,
        <<[time |-> "morning", activities |-> <<[name |-> {"park", "cafe"}, category |-> "restaurant"]>>],
          [time |-> "afternoon", activities |-> <<>>]>> >>}

RegenPlan(blocks) ==
    LET p == ExistingPlan(Len(blocks), Agents)
    IN [p EXCEPT !.days = [k \in 1..Len(blocks) |-> [p.days[k] EXCEPT !.blocks = blocks[k]]]]
RegenPlans == {RegenPlan(blocks) : blocks \in RegenBlocks}
RegenIntents == {ei \in EditIntents : ei.edit_type \in {"itinerary_day", "itinerary_activity"}}

\* an edit run that regenerates one day of an existing plan
InitRegen ==
    /\ InitCommon
    /\ pc = "edit_start"
    /\ rt = NoRoute
    /\ intent = EmptyRequest
    /\ requested = {}
    /\ plan \in RegenPlans
    /\ plan0 = plan
    /\ edit_intent \in RegenIntents
    /\ msg = NoDatesMsg
    /\ now = [date |-> 20271104, midnight |-> FALSE]

NextRegen ==
    \/ EditStart
    \/ DayEdit
    \/ ActivityEdit
    \/ DayRegenDone
    \/ EditSummary
    \/ EditExcept

SpecRegen == InitRegen /\ [][NextRegen]_vars

\* the activities of every day of `days` other than day k
OtherActivities(days, k) ==
    UNION {UNION {{days[i].blocks[b].activities[j] : j \in 1..Len(days[i].blocks[b].activities)} :
                    b \in 1..Len(days[i].blocks)} :
             i \in (1..Len(days)) \ {k}}
\* a name without capitals and without outer white space
LowerTrimmed(name) == name \cap {SpaceBefore, SpaceAfter} = {} /\ \A w \in name : LowerWord(w) = w

\* C35: when day k of a plan is regenerated (itinerary_day or
\* itinerary_activity), the restaurant set handed to the day planner is exactly
\* the lower-cased, trimmed names of the restaurant activities of the days other
\* than k, and the activity set exactly those of their non-restaurant
\* activities: day k contributes no name, and each activity's name goes to the
\* one set its category selects.
C35_UsedNamesFromOtherDays ==
    planner.called
    => LET k == planner.day_number
           others == OtherActivities(plan0.days, k)
           eat == {a \in others : a.category = "restaurant"}
           see == others \ eat
       IN /\ k = edit_intent.day_number
          /\ planner.used_restaurant_names = {StripName(LowerName(a.name)) : a \in eat}
          /\ planner.used_activity_names = {StripName(LowerName(a.name)) : a \in see}
          /\ \A n \in planner.used_restaurant_names \cup planner.used_activity_names : LowerTrimmed(n)
          /\ \A a \in others :
               IF a.category = "restaurant"
               THEN \/ StripName(LowerName(a.name)) \notin planner.used_activity_names
                    \/ \E b \in see : StripName(LowerName(b.name)) = StripName(LowerName(a.name))
               ELSE \/ StripName(LowerName(a.name)) \notin planner.used_restaurant_names
                    \/ \E b \in eat : StripName(LowerName(b.name)) = StripName(LowerName(a.name))

\* day 3 of a three-day plan was regenerated: the other days hold names with
\* capitals and outer white space, day 3 holds a name no other day has, and
\* both sets are non-empty
C35_Witness ==
    /\ pc = "edit_summary"
    /\ planner.called
    /\ planner.day_number = 3
    /\ planner.total_days = 3
    /\ \E a \in OtherActivities(plan0.days, 3) : ~LowerTrimmed(a.name)
    /\ \E j \in 1..Len(plan0.days[3].blocks[1].activities) :
         \A a \in OtherActivities(plan0.days, 3) :
           StripName(LowerName(a.name)) # StripName(LowerName(plan0.days[3].blocks[1].activities[j].name))
    /\ planner.used_restaurant_names # {}
    /\ planner.used_activity_names # {}


-----------------------------------------------------------------------------
(* Scheduling after the missing-field check (lines 130-160). *)

\* the step of process_request_stream that schedules the agents
Scheduling == pc = "check_missing" /\ pc' = "agents"

\* C37: the agents are scheduled only when the missing-field check returned
\* an empty list, and then the agents scheduled are exactly the requested
\* components, each once: none is dropped and none is added. The list is not
\* computed again later in the run.
C37_ScheduledAreRequested ==
    [][/\ Scheduling
          => /\ CheckMissingInformation(intent, requested) = <<>>
             /\ SeqToSet(agents_needed') = requested
             /\ Len(agents_needed') = Cardinality(requested)
             /\ requested' = requested
       /\ agents_needed # <<>> => agents_needed' = agents_needed]_vars

\* all three components were requested for a trip with a length and no return
\* date, and all three agents are scheduled
C37_Witness ==
    /\ pc = "agents"
    /\ requested = Agents
    /\ intent.return_date = NoDate
    /\ intent.trip_length = 3
    /\ agents_needed = AgentOrder


-----------------------------------------------------------------------------
(* One stream session whose background task runs a fresh request            *)
(* (_process_stream_background, lines 167-195).  segment_callback puts      *)
(* every segment of the run on the session's queue (lines 172-177), so      *)
(* until a consumer reads, the queue holds `out` followed by what the task  *)
(* itself put.                                                              *)

\* the items the task itself puts: the "__DONE__" string and the error
\* segment of agent SYSTEM
DoneMarker == Seg("__DONE__", "task", "__DONE__", <<>>, FALSE)
SystemError == Seg("error", "task", "SYSTEM", <<>>, FALSE)

\* `orchestrator = Orchestrator(thread_id, user_id=user_id)` (line 169)
\* returns, and process_request_stream begins, or it raises
BgConstruct(id) ==
    /\ bg[id].pc = "created"
    /\ pc = "unstarted"
    /\ \E ok \in BOOLEAN :
         IF ok
         THEN /\ bg' = [bg EXCEPT ![id].pc = "running"]
              /\ pc' = "initial_progress"
         ELSE /\ bg' = [bg EXCEPT ![id].pc = "raised", ![id].outcome = "error"]
              /\ pc' = "not_run"
    /\ UNCHANGED <<stream_sessions, queues, cleanup, store, delivered, consumers,
                   out, freshVars, editVars, toolVars, ret, returned, saved, saveCount, launched, threw, rt>>

\* process_request_stream returned: `queue.put_nowait("__DONE__")`, line 183
BgRunReturns(id) ==
    /\ bg[id].pc = "running"
    /\ returned
    /\ queues' = [queues EXCEPT ![id] = Append(out, DoneMarker)]
    /\ bg' = [bg EXCEPT ![id].pc = "done", ![id].outcome = "plan"]
    /\ UNCHANGED <<stream_sessions, cleanup, store, delivered, consumers, runVars>>

\* the except clause, lines 185-195: a SYSTEM error segment, then "__DONE__"
BgRunRaisesMut(id) ==
    /\ bg[id].pc = "raised"
    /\ queues' = [queues EXCEPT ![id] = Append(out, SystemError)]
    /\ bg' = [bg EXCEPT ![id].pc = "done"]
    /\ UNCHANGED <<stream_sessions, cleanup, store, delivered, consumers, runVars>>
BgRunRaises(id) ==
    /\ bg[id].pc = "raised"
    /\ queues' = [queues EXCEPT ![id] = out \o <<SystemError, DoneMarker>>]
    /\ bg' = [bg EXCEPT ![id].pc = "done"]
    /\ UNCHANGED <<stream_sessions, cleanup, store, delivered, consumers, runVars>>

\* start_stream has created session 1 and its two tasks
InitStream ==
    /\ out = <<>>
    /\ ret = EmptyPlan
    /\ returned = FALSE
    /\ saved = [hasPlan |-> FALSE, plan |-> EmptyPlan]
    /\ saveCount = 0
    /\ launched = {}
    /\ threw = {}
    /\ agentSt = [a \in Agents |-> "idle"]
    /\ results = [a \in Agents |-> NoResult]
    /\ itinDays = <<>>
    /\ agents_needed = <<>>
    /\ shimmer_active = FALSE
    /\ sh = NoShimmer
    /\ raised = FALSE
    /\ planner = NoPlannerCall
    /\ rotation = NoRotation
    /\ search = NoSearch
    /\ pc = "unstarted"
    /\ rt = NoRoute
    /\ intent \in [origin : Origins, destination : Destinations, depart_date : {0, D0},
                   return_date : {NoDate, D0 + 2}, trip_length : {0, 3}]
    /\ requested \in (SUBSET Agents) \ {{}}
    /\ plan = EmptyPlan /\ plan0 = EmptyPlan
    /\ edit_intent = NoEditIntent
    /\ msg = NoDatesMsg
    /\ now = [date |-> 20271104, midnight |-> FALSE]
    /\ stream_sessions = {1}
    /\ queues = [i \in SessionIds |-> <<>>]
    /\ bg = [i \in SessionIds |-> IF i = 1 THEN [NoTask EXCEPT !.thread = "t1", !.pc = "created"] ELSE NoTask]
    /\ cleanup = [i \in SessionIds |-> IF i = 1 THEN [pc |-> "sleeping", slept |-> 0] ELSE NoCleanup]
    /\ store = [t \in Threads |-> <<>>]
    /\ delivered = [i \in SessionIds |-> <<>>]
    /\ consumers = [i \in SessionIds |-> "none"]

NextStream ==
    \/ BgConstruct(1)
    \/ NextFresh
    \/ BgRunReturns(1)
    \/ BgRunRaises(1)

SpecStream == InitStream /\ [][NextStream]_vars

\* number of "__DONE__" markers in a sequence of queue items
RECURSIVE DoneCount(_)
DoneCount(q) == IF q = <<>> THEN 0
                ELSE (IF Head(q) = DoneMarker THEN 1 ELSE 0) + DoneCount(Tail(q))

DoneOnceAndLast ==
    IF bg[1].pc = "done"
    THEN /\ DoneCount(queues[1]) = 1
         /\ queues[1][Len(queues[1])] = DoneMarker
         /\ SubSeq(queues[1], 1, Len(out)) = out
         /\ Len(queues[1]) = Len(out) + (IF bg[1].outcome = "error" THEN 2 ELSE 1)
    ELSE DoneCount(queues[1]) = 0
NothingPutAfterDone == bg[1].pc = "done" => out' = out /\ queues' = queues
\* C38: when the background task of a session has ended, after a run that
\* returned or after an exception, it has put "__DONE__" on the session's
\* queue exactly once, as the last item, behind every segment the run
\* streamed; before that the task has put no marker, and afterwards nothing
\* is put on the queue any more.
C38_DoneOnceAndLast == []DoneOnceAndLast /\ [][NothingPutAfterDone]_vars

\* a run with a live progress task failed, its error segment and the
\* progress messages are on the queue, and the marker is behind them
C38_Witness ==
    /\ bg[1].pc = "done"
    /\ bg[1].outcome = "plan"
    /\ \E i \in 1..Len(out) : out[i].type = "error"
    /\ \E i \in 1..Len(out) : out[i].src = "shimmer"
    /\ sh.pc = "done"
    /\ queues[1][Len(queues[1])] = DoneMarker


-----------------------------------------------------------------------------
(* call_with_key_rotation (src/plan.py) over the keys of the KeyManager     *)
(* (src/unnamed/part_000).  The pool holds n distinct keys, numbered 1..n   *)
(* in the order of get_all_keys; a Python index is the key's number less 1. *)
MaxKeys == 3         \* most keys in the pool
NoLimit == -1        \* max_keys_to_try = None
KeyRoles == <<"ORCHESTRATOR", "FLIGHTS", "HOTELS", "ITINERARY", "SUMMARY">>

\* _assign_roles and get_key_for_role: role i of the list gets key i % n, a
\* role that is not in the list gets the first key
AssignedKey(role, n) ==
    IF \E i \in 1..Len(KeyRoles) : KeyRoles[i] = role
    THEN (((CHOOSE i \in 1..Len(KeyRoles) : KeyRoles[i] = role) - 1) % n) + 1
    ELSE 1

\* lines 46-49
MaxKeysToTry(max_keys_to_try, n) ==
    IF max_keys_to_try = NoLimit THEN n
    ELSE IF max_keys_to_try < n THEN max_keys_to_try ELSE n

\* the messages of the exceptions llm_call raises, and the keywords of
\* is_rate_limit_error each contains once lower-cased
ErrorTexts == {"429 Too Many Requests", "Quota exceeded, retry in 2s", "RATE LIMIT reached",
               "Invalid argument", "Deadline Exceeded"}
KeywordsIn(text) ==
    CASE text = "429 Too Many Requests" -> {"429"}
      [] text = "Quota exceeded, retry in 2s" -> {"quota"}
      [] text = "RATE LIMIT reached" -> {"rate limit"}
      [] OTHER -> {}
is_rate_limit_error(text) ==
    KeywordsIn(text) \cap {"429", "rate limit", "quota", "exceeded your current quota",
                           "generativelanguage.googleapis.com"} # {}

\* lines 68-74: the first key not yet tried, looking round the pool from
\* index current_key_index + attempt; 0 when every key was tried
RECURSIVE NextUntried(_, _, _, _, _)
NextUntried(n, current_key_index, attempt, keys_tried, offset) ==
    IF offset >= n THEN 0
    ELSE LET candidate_index == (current_key_index + attempt + offset) % n
         IN IF candidate_index + 1 \notin keys_tried THEN candidate_index + 1
            ELSE NextUntried(n, current_key_index, attempt, keys_tried, offset + 1)
PickKeyMut(n, current_key_index, attempt, keys_tried) == current_key_index + 1
PickKey(n, current_key_index, attempt, keys_tried) ==
    NextUntried(n, current_key_index, attempt, keys_tried, 0)

NoError == [attempt |-> -1, text |-> ""]

\* the call, lines 43-61: the attempt bound and the index of the role's key
RotationCall ==
    /\ rotation.pc = "none"
    /\ \E n \in 1..MaxKeys, agent_name \in SeqToSet(KeyRoles) \cup {"PLANNER"},
          max_keys_to_try \in {NoLimit} \cup (1..(MaxKeys + 1)) :
         rotation' = [pc |-> "loop", n |-> n, agent_name |-> agent_name, arg |-> max_keys_to_try,
                      max_keys_to_try |-> MaxKeysToTry(max_keys_to_try, n),
                      current_key_index |-> AssignedKey(agent_name, n) - 1,
                      attempt |-> 0, keys_tried |-> {}, last_rate_limit_error |-> NoError,
                      calls |-> <<>>, result |-> 0, raised |-> NoError]
    /\ UNCHANGED <<pc, out, freshVars, editVars, search, ret, returned, saved, saveCount,
                   launched, threw, rt, serverVars>>

\* one pass of the loop, lines 63-130: pick a key, call llm_call with it, and
\* return its result, go on after a rate-limit error, or re-raise another error
RotationAttempt ==
    /\ rotation.pc = "loop"
    /\ rotation.attempt < rotation.max_keys_to_try
    /\ LET key == PickKey(rotation.n, rotation.current_key_index, rotation.attempt, rotation.keys_tried)
       IN IF key = 0
          THEN rotation' = [rotation EXCEPT !.pc = "exhausted"]
          ELSE \E ok \in BOOLEAN, text \in ErrorTexts :
                 LET e == [attempt |-> rotation.attempt, text |-> text]
                     r == [rotation EXCEPT !.keys_tried = @ \cup {key},
                                           !.calls = Append(@, [key |-> key, ok |-> ok,
                                                                error |-> IF ok THEN NoError ELSE e])]
                 IN /\ ok => text = "Invalid argument"
                    /\ rotation' =
                         IF ok THEN [r EXCEPT !.pc = "returned", !.result = key]
                         ELSE IF is_rate_limit_error(text)
                         THEN [r EXCEPT !.last_rate_limit_error = e, !.attempt = @ + 1]
                         ELSE [r EXCEPT !.pc = "raised", !.raised = e]
    /\ UNCHANGED <<pc, out, freshVars, editVars, search, ret, returned, saved, saveCount,
                   launched, threw, rt, serverVars>>

\* after the loop, lines 132-141
RotationExhausted ==
    /\ rotation.pc \in {"loop", "exhausted"}
    /\ rotation.pc = "loop" => rotation.attempt >= rotation.max_keys_to_try
    /\ rotation' = [rotation EXCEPT !.pc = "raised",
                      !.raised = IF rotation.last_rate_limit_error # NoError
                                 THEN rotation.last_rate_limit_error
                                 ELSE [attempt |-> -1, text |-> "Failed to call LLM"]]
    /\ UNCHANGED <<pc, out, freshVars, editVars, search, ret, returned, saved, saveCount,
                   launched, threw, rt, serverVars>>

\* a process in which the tools are called outside a request
InitTools ==
    /\ InitCommon
    /\ pc = "tools"
    /\ rt = NoRoute
    /\ intent = EmptyRequest
    /\ requested = {}
    /\ plan = EmptyPlan /\ plan0 = EmptyPlan
    /\ edit_intent = NoEditIntent
    /\ msg = NoDatesMsg
    /\ now = [date |-> Today, midnight |-> FALSE]

NextRotation ==
    \/ RotationCall
    \/ RotationAttempt
    \/ RotationExhausted

SpecRotation == InitTools /\ [][NextRotation]_vars

\* the key the i-th attempt of a call must use: round-robin from the role's key
RoundRobinKey(role, n, i) == ((AssignedKey(role, n) - 1 + i - 1) % n) + 1
\* the messages of rate-limit and quota errors
RateLimitTexts == {"429 Too Many Requests", "Quota exceeded, retry in 2s", "RATE LIMIT reached"}
\* the attempt bound of a call: min(max_keys_to_try, number of keys)
AttemptBound(arg, n) == IF arg = NoLimit \/ arg > n THEN n ELSE arg

\* C39: a call tries the keys round-robin from the role's assigned key, no
\* key twice and at most min(max_keys_to_try, number of keys) of them; it goes
\* to the next key only after a rate-limit error, returns the result of the
\* first attempt that succeeds, re-raises an error that is not a rate-limit
\* error at once, and raises the last rate-limit error when every attempt it
\* was allowed was rate-limited.
C39_KeyRotation ==
    rotation.pc # "none"
    => LET calls == rotation.calls
           last == calls[Len(calls)]
       IN /\ Len(calls) <= AttemptBound(rotation.arg, rotation.n)
          /\ \A i \in 1..Len(calls) : calls[i].key = RoundRobinKey(rotation.agent_name, rotation.n, i)
          /\ \A i, j \in 1..Len(calls) : i # j => calls[i].key # calls[j].key
          /\ \A i \in 1..(Len(calls) - 1) : ~calls[i].ok /\ calls[i].error.text \in RateLimitTexts
          /\ rotation.pc = "returned"
             <=> (calls # <<>> /\ last.ok)
          /\ rotation.pc = "returned" => rotation.result = last.key
          /\ (calls # <<>> /\ ~last.ok /\ last.error.text \notin RateLimitTexts)
             => rotation.pc = "raised" /\ rotation.raised = last.error
          /\ (rotation.pc = "raised" /\ rotation.raised.text \in RateLimitTexts)
             => /\ Len(calls) = AttemptBound(rotation.arg, rotation.n)
                /\ rotation.raised = last.error
          /\ rotation.pc = "raised" => calls # <<>> /\ rotation.raised = last.error
          /\ rotation.pc # "exhausted"

\* the role's key is not the first of the pool, two keys were rate-limited
\* and the third call, on the key before the role's, succeeded
C39_Witness ==
    /\ rotation.pc = "returned"
    /\ rotation.n = 3
    /\ rotation.agent_name = "HOTELS"
    /\ Len(rotation.calls) = 3
    /\ rotation.calls[1].key = 3
    /\ rotation.result = 2


-----------------------------------------------------------------------------
(* search_flights and search_hotels (src/itinerary_agent.py): the           *)
(* credential check, then up to `retries` HTTP requests.                    *)
MaxEntries == 2      \* most entries in a response
retries == 3

\* the httpx exceptions of the first except clause, and two that it does not
\* name: a connect timeout and a body that is not JSON
NetworkErrors == {"ConnectError", "ReadTimeout", "RemoteProtocolError", "ReadError"}
OtherErrors == {"ConnectTimeout", "JSONDecodeError"}
IsNetworkErrorMut(e) == e # ""
IsNetworkError(e) == e \in NetworkErrors

\* what one `client.get` and the reading of its response come to: an
\* exception, or a status code with, for 200, the `error` key, the number of
\* entries and the number of them that parse
NoResponse == [exc |-> "", code |-> 0, has_error |-> FALSE, entries |-> 0, parsed |-> 0]
Responses ==
    {[NoResponse EXCEPT !.exc = e] : e \in NetworkErrors \cup OtherErrors}
    \cup {[NoResponse EXCEPT !.code = c] : c \in {429, 500}}
    \cup {[NoResponse EXCEPT !.code = 200, !.has_error = h, !.entries = n, !.parsed = p] :
            h \in BOOLEAN, n \in 0..MaxEntries, p \in 0..MaxEntries}

Status(status, count) == [status |-> status, count |-> count]

\* the status dictionary for a 200 response, lines 62-129 and 493-544
ParsedStatus(fn, r) ==
    IF fn = "search_flights" /\ r.has_error THEN Status("no_results", 0)
    ELSE IF r.entries = 0 THEN Status("no_results", 0)
    ELSE IF r.parsed = 0 THEN Status("no_results", 0)
    ELSE Status("success", IF fn = "search_flights" /\ r.parsed > 15 THEN 15 ELSE r.parsed)

\* the call, lines 31-34 and 468-471: without SERPAPI_KEY an error status
SearchCall ==
    /\ search.pc = "none"
    /\ \E fn \in {"search_flights", "search_hotels"}, key \in BOOLEAN :
         search' = [pc |-> IF key THEN "loop" ELSE "returned", fn |-> fn, key |-> key,
                    attempt |-> 0, http |-> 0, log |-> <<>>, slept |-> 0,
                    result |-> IF key THEN Status("none", 0) ELSE Status("error", 0)]
    /\ UNCHANGED <<pc, out, freshVars, editVars, rotation, ret, returned, saved, saveCount,
                   launched, threw, rt, serverVars>>

\* one pass of the retry loop, lines 57-147 and 489-560: a request, then a
\* status dictionary, or the back-off sleep after a network error; the
\* return behind the loop when no pass is left
SearchAttempt ==
    /\ search.pc = "loop"
    /\ IF search.attempt >= retries
       THEN search' = [search EXCEPT !.pc = "returned", !.result = Status("error", 0)]
       ELSE \E r \in Responses :
              /\ r.parsed <= r.entries
              /\ LET s == [search EXCEPT !.http = @ + 1, !.log = Append(@, r)]
                 IN search' =
                      IF r.exc # ""
                      THEN IF IsNetworkError(r.exc) /\ search.attempt + 1 # retries
                           THEN [s EXCEPT !.attempt = @ + 1, !.slept = @ + 2 ^ search.attempt]
                           ELSE [s EXCEPT !.pc = "returned", !.result = Status("error", 0)]
                      ELSE IF r.code # 200
                      THEN [s EXCEPT !.pc = "returned", !.result = Status("error", 0)]
                      ELSE [s EXCEPT !.pc = "returned", !.result = ParsedStatus(search.fn, r)]
    /\ UNCHANGED <<pc, out, freshVars, editVars, rotation, ret, returned, saved, saveCount,
                   launched, threw, rt, serverVars>>

NextSearch ==
    \/ SearchCall
    \/ SearchAttempt

\* the function is synchronous and every request is bounded by the client
\* timeout, so a pass of the loop that has begun ends (SpecSearchFair)
SpecSearch == InitTools /\ [][NextSearch]_vars
SpecSearchFair == SpecSearch /\ WF_vars(SearchAttempt)

SearchStatusShape ==
    search.pc # "none"
    => LET log == search.log
           last == log[Len(log)]
           network(r) == r.exc \in NetworkErrors
       IN /\ search.http = Len(log)
          /\ search.http <= 3
          /\ \A i \in 1..(Len(log) - 1) : network(log[i])
          /\ ~search.key => search.pc = "returned" /\ search.result.status = "error" /\ search.http = 0
          /\ (log # <<>> /\ ~network(last)) => search.pc = "returned"
          /\ Len(log) = 3 => search.pc = "returned"
          /\ search.pc = "returned"
             => /\ search.result.status \in {"success", "no_results", "error"}
                /\ search.result.status = "success"
                   => /\ search.result.count >= 1
                      /\ last.exc = "" /\ last.code = 200
                /\ search.key
                   => /\ log # <<>>
                      /\ network(last) => Len(log) = 3 /\ search.result.status = "error"
                      /\ (last.exc # "" \/ last.code # 200) => search.result.status = "error"

\* C40: a call of search_flights or search_hotels ends with a status
\* dictionary whose status is success, no_results or error: without the API
\* credential an error status and no HTTP request; after a network error a
\* further request, three at most, then an error status; after a non-200
\* response or any other exception an error status and no further request;
\* and a success status only with at least one result.
C40_SearchAlwaysReturnsStatus ==
    /\ []SearchStatusShape
    /\ (search.pc = "loop") ~> (search.pc = "returned")

\* a flight search that met two network errors and then a response of which
\* one entry of two parsed
C40_Witness ==
    /\ search.pc = "returned"
    /\ search.fn = "search_flights"
    /\ Len(search.log) = 3
    /\ search.log[1].exc = "ConnectError"
    /\ search.log[2].exc = "ReadTimeout"
    /\ search.log[3].entries = 2
    /\ search.result = Status("success", 1)
    /\ search.slept = 3

====
